---- MODULE Spec2Model ----
(***************************************************************************)
(* Model of the AnimalMiru recorders:                                      *)
(*   src/src/arduino_recorder.py      worker threads + sampler loop        *)
(*   src/Analyze/single_sensor_recorder.py   parse_arduino_data            *)
(*   src/BeagleBone/receiver.py       IM920sReceiver.parse_received_data   *)
(*   src/BeagleBone/visualizer.py     RealtimePIRVisualizer.parse_data     *)
(* A line of text is a sequence of one-character strings.                  *)
(***************************************************************************)
EXTENDS Integers, Sequences, FiniteSets, TLC

VARIABLES
    \* ---- labeled-scalar parser harness
    psLine,          \* the line handed to parse_arduino_data
    psFields,        \* the fields the line was built from (n, c, v, well-formedness)
    psResult,        \* result of arduino_recorder.parse_arduino_data
    psResultSingle,  \* result of single_sensor_recorder.parse_arduino_data
    \* ---- hex frame decoder harness
    hxLine,          \* the line handed to parse_received_data / parse_data
    hxFields,        \* the parts the frame was built from
    hxResult,        \* result of IM920sReceiver.parse_received_data
    hxResultVis,     \* result of RealtimePIRVisualizer.parse_data
    \* ---- arduino_recorder.py: shared module-level state
    latest_circuit_data,   \* dict circuit_no -> (circuit_value, voltage)
    last_data_time,        \* dict circuit_no -> time.time() of the last store
    data_receive_errors,   \* dict port index -> error count
    \* ---- arduino_recorder.py: one read_from_arduino thread per port
    wpc,             \* position of each thread in its loop
    wcircuit,        \* circuit_no unpacked by each thread (line 84)
    \* ---- arduino_recorder.py: the recording loop of the main thread
    spc,             \* position of the main thread in its loop
    circuit_no,      \* loop variable of the two for loops
    current_time_stamp,
    stale_circuits,
    row,
    data_timeout_check,
    csv_rows,        \* number of rows handed to writer.writerow
    flushed,         \* number of rows flushed to the file
    total_warnings,  \* number of times the cumulative-error message was printed
    now,             \* the clock read by time.time() and datetime.now(), in units of 0.1 s
    \* ---- arduino_recorder.py: the ports, the file and the end of the main thread
    is_open,         \* per port, ser.is_open
    sink_open,       \* the csv file f is open (inside the with block of line 142)
    sink_failed,     \* a write to the file has raised
    main_printed,    \* what the program printed on its way out of the loop
    \* ---- single_sensor_recorder.py: the one loop that reads and records
    pc_single,                   \* position of the program: in its loop, leaving it, ended
    stopped_single,              \* how the loop was left: not yet, by Ctrl+C, by the break of line 135
    data_receive_errors_single,  \* the module-level counter data_receive_errors
    latest_data,                 \* None or the fields of the last parsed line
    row_single,                  \* the last row handed to writer.writerow
    csv_rows_single,             \* number of rows written and flushed
    ser_open_single,             \* ser.is_open
    \* ---- receiver.py: one IM920sReceiver object and its call of run()
    rpc,             \* position of run(): connect, start_csv, loop, triple, flush, cleanup, returned, raised
    leaving,         \* why the loop of run() was left: "no", "interrupt", "exception"
    ser,             \* self.ser: "none", "open" or "closed"
    csv_file,        \* self.csv_file: "none", "open" or "closed"
    csv_writer,      \* self.csv_writer is set
    data_buffer,     \* self.data_buffer: the deques A1, A2, A3, timestamps
    csv_out,         \* the rows written to the csv file, header first
    csv_flushed,     \* number of those rows flushed
    samples,         \* the triples of the current frame not yet handled by the for loop
    current_time,    \* current_time of the frame being handled
    rnow,            \* the clock of the receiver: passes of the loop made
    \* ---- observers (not program state)
    expected,        \* every triple decoded from the frames received, with the frame's time
    timeSeen,        \* per circuit, the store whose time the staleness loop read
    storedInTick,    \* circuits stored to since the current row was begun
    lastStored,      \* per circuit, the fields of the last line stored for it
    reads,           \* per thread, number of ser.readline() calls made
    runKind,         \* per thread, the kind common to all its reads so far
    ioTally,         \* per thread, reads that raised since the last read that did not
    parseTally,      \* per thread, unparseable lines since the last parsed line
    silentTally,     \* per thread, empty reads since the last parsed line
    parseWarnings,   \* per thread, number of parse-failure warnings printed
    printed          \* per thread, what the last iteration printed

parseVars == <<psLine, psFields, psResult, psResultSingle>>
hexVars == <<hxLine, hxFields, hxResult, hxResultVis>>
registryVars == <<latest_circuit_data, last_data_time>>
workerVars == <<data_receive_errors, wpc, wcircuit>>
samplerVars == <<spc, circuit_no, current_time_stamp, stale_circuits, row,
                 data_timeout_check, csv_rows, flushed, total_warnings, now>>
singleVars == <<pc_single, stopped_single, data_receive_errors_single, latest_data,
                row_single, csv_rows_single, ser_open_single>>
receiverVars == <<rpc, leaving, ser, csv_file, csv_writer, data_buffer, csv_out, csv_flushed,
                  samples, current_time, rnow, expected>>
exitVars == <<is_open, sink_open, sink_failed, main_printed>>
tickObsVars == <<timeSeen, storedInTick>>
workerObsVars == <<reads, runKind, ioTally, parseTally, silentTally, parseWarnings, printed>>

-----------------------------------------------------------------------------
(* Bounds *)
MaxIntLen == 2      \* longest digit string used for <n> and <c>
MaxVoltLen == 5     \* longest [\d.]+ string used for <v>
MaxHexLen == 12     \* longest hex payload

(* Character classes of the regular expressions *)
Digit == {"0", "1", "2", "3", "4", "5", "6", "7", "8", "9"}
Space == {" ", "\t"}
DigitDot == Digit \cup {"."}
HexDigit == Digit \cup {"A", "B", "C", "D", "E", "F", "a", "b", "c", "d", "e", "f"}

DigitVal(ch) ==
    CASE ch = "0" -> 0 [] ch = "1" -> 1 [] ch = "2" -> 2 [] ch = "3" -> 3
      [] ch = "4" -> 4 [] ch = "5" -> 5 [] ch = "6" -> 6 [] ch = "7" -> 7
      [] ch = "8" -> 8 [] ch = "9" -> 9

HexVal(ch) ==
    CASE ch \in Digit -> DigitVal(ch)
      [] ch \in {"A", "a"} -> 10 [] ch \in {"B", "b"} -> 11
      [] ch \in {"C", "c"} -> 12 [] ch \in {"D", "d"} -> 13
      [] ch \in {"E", "e"} -> 14 [] ch \in {"F", "f"} -> 15

\* all sequences over alphabet A of length lo..hi
SeqsOf(A, lo, hi) == UNION {[1..k -> A] : k \in lo..hi}

\* s[i..j-1] as a sequence (1-based, j exclusive)
Slice(s, i, j) == [k \in 1..(j - i) |-> s[i + k - 1]]

\* does literal lit occur in s at position i
LitAt(s, i, lit) ==
    /\ i + Len(lit) - 1 <= Len(s)
    /\ \A k \in 1..Len(lit) : s[i + k - 1] = lit[k]

\* greedy run of a character class: first index >= i whose character is outside C
RECURSIVE SkipWhile(_, _, _)
SkipWhile(s, i, C) ==
    IF i <= Len(s) /\ s[i] \in C THEN SkipWhile(s, i + 1, C) ELSE i

-----------------------------------------------------------------------------
(* Python int(str) and int(str, 16) on a digit string *)
RECURSIVE int10(_)
int10(s) ==
    IF s = <<>> THEN 0
    ELSE 10 * int10(SubSeq(s, 1, Len(s) - 1)) + DigitVal(s[Len(s)])

RECURSIVE int16(_)
int16(s) ==
    IF s = <<>> THEN 0
    ELSE 16 * int16(SubSeq(s, 1, Len(s) - 1)) + HexVal(s[Len(s)])

(* Python float(str) on a string of digits and dots.  float raises           *)
(* ValueError unless the string holds at most one dot and at least one digit.*)
(* The value is kept as the decimal m * 10^-e with trailing fraction zeros   *)
(* removed: for strings of at most 15 significant digits two decimals give   *)
(* the same double exactly when this normal form is the same.                *)
NumDots(s) == Cardinality({k \in 1..Len(s) : s[k] = "."})
NumDigits(s) == Cardinality({k \in 1..Len(s) : s[k] \in Digit})

RECURSIVE StripDots(_)
StripDots(s) ==
    IF s = <<>> THEN <<>>
    ELSE IF s[1] = "." THEN StripDots(Tail(s)) ELSE <<s[1]>> \o StripDots(Tail(s))

RECURSIVE NormDec(_, _)
NormDec(m, e) ==
    IF e > 0 /\ m % 10 = 0 THEN NormDec(m \div 10, e - 1) ELSE [m |-> m, e |-> e]

FloatValid(s) == NumDots(s) <= 1 /\ NumDigits(s) >= 1

FracLen(s) ==
    IF NumDots(s) = 0 THEN 0
    ELSE Len(s) - (CHOOSE k \in 1..Len(s) : s[k] = ".")

float(s) == NormDec(int10(StripDots(s)), FracLen(s))

-----------------------------------------------------------------------------
(* parse_arduino_data:                                                      *)
(*   re.match(r'circuit No\.(\d+)\s*:\s*(\d+)\s*,\s*([\d.]+)\[V\]', line)   *)
(* Every quantifier is followed by a character outside its class, so the    *)
(* greedy run is the only way the expression can match.                     *)
Prefix == <<"c", "i", "r", "c", "u", "i", "t", " ", "N", "o", ".">>
UnitLit == <<"[", "V", "]">>

None == [kind |-> "None", circuit_no |-> 0, circuit_value |-> 0, voltage |-> [m |-> 0, e |-> 0]]
Raised == [kind |-> "ValueError", circuit_no |-> 0, circuit_value |-> 0, voltage |-> [m |-> 0, e |-> 0]]

ArduinoMatch(line) ==
    LET g1 == Len(Prefix) + 1
        g1e == SkipWhile(line, g1, Digit)
        c1 == SkipWhile(line, g1e, Space)
        g2 == SkipWhile(line, c1 + 1, Space)
        g2e == SkipWhile(line, g2, Digit)
        c2 == SkipWhile(line, g2e, Space)
        g3 == SkipWhile(line, c2 + 1, Space)
        g3e == SkipWhile(line, g3, DigitDot)
        ok == /\ LitAt(line, 1, Prefix)
              /\ g1e > g1
              /\ LitAt(line, c1, <<":">>)
              /\ g2e > g2
              /\ LitAt(line, c2, <<",">>)
              /\ g3e > g3
              /\ LitAt(line, g3e, UnitLit)
    IN  IF ok
        THEN [matched |-> TRUE, group1 |-> Slice(line, g1, g1e),
              group2 |-> Slice(line, g2, g2e), group3 |-> Slice(line, g3, g3e)]
        ELSE [matched |-> FALSE, group1 |-> <<>>, group2 |-> <<>>, group3 |-> <<>>]

\* variant of parse_arduino_data that returns the two integer groups swapped
parse_arduino_data_swapped(line) ==
    LET match == ArduinoMatch(line)
    IN  IF match.matched
        THEN IF FloatValid(match.group3)
             THEN [kind |-> "ok",
                   circuit_no |-> int10(match.group2),
                   circuit_value |-> int10(match.group1),
                   voltage |-> float(match.group3)]
             ELSE Raised
        ELSE None

parse_arduino_data(line) ==
    LET match == ArduinoMatch(line)
    IN  IF match.matched
        THEN IF FloatValid(match.group3)
             THEN [kind |-> "ok",
                   circuit_no |-> int10(match.group1),
                   circuit_value |-> int10(match.group2),
                   voltage |-> float(match.group3)]
             ELSE Raised
        ELSE None

\* the copy in single_sensor_recorder.py
parse_arduino_data_single(line) ==
    LET match == ArduinoMatch(line)
    IN  IF match.matched
        THEN IF FloatValid(match.group3)
             THEN [kind |-> "ok",
                   circuit_no |-> int10(match.group1),
                   circuit_value |-> int10(match.group2),
                   voltage |-> float(match.group3)]
             ELSE Raised
        ELSE None

-----------------------------------------------------------------------------
(* parse_received_data / parse_data:                                        *)
(*   re.search(r'00,0004,\d+:([0-9A-Fa-f]+)', line)                         *)
HexHeader == <<"0", "0", ",", "0", "0", "0", "4", ",">>

HexMatchAt(line, i) ==
    LET d == i + Len(HexHeader)
        de == SkipWhile(line, d, Digit)
        h == de + 1
        he == SkipWhile(line, h, HexDigit)
    IN  /\ LitAt(line, i, HexHeader)
        /\ de > d
        /\ LitAt(line, de, <<":">>)
        /\ he > h

HexGroupAt(line, i) ==
    LET de == SkipWhile(line, i + Len(HexHeader), Digit)
    IN  Slice(line, de + 1, SkipWhile(line, de + 1, HexDigit))

\* variant of HexValues that keeps a trailing single hex digit as a byte
RECURSIVE HexValuesKeepNibble(_, _)
HexValuesKeepNibble(hex_data, i) ==
    IF i >= Len(hex_data) THEN <<>>
    ELSE <<int16(Slice(hex_data, i + 1, IF i + 1 < Len(hex_data) THEN i + 3 ELSE i + 2))>>
             \o HexValuesKeepNibble(hex_data, i + 2)

\* the loops index from 0 as the code does
RECURSIVE HexValues(_, _)
HexValues(hex_data, i) ==
    IF i >= Len(hex_data) THEN <<>>
    ELSE (IF i + 1 < Len(hex_data)
          THEN <<int16(Slice(hex_data, i + 1, i + 3))>>
          ELSE <<>>) \o HexValues(hex_data, i + 2)

RECURSIVE HexSamples(_, _)
HexSamples(values, i) ==
    IF i >= Len(values) THEN <<>>
    ELSE (IF i + 2 < Len(values)
          THEN <<(<<values[i + 1], values[i + 2], values[i + 3]>>)>>
          ELSE <<>>) \o HexSamples(values, i + 3)

parse_received_data(line) ==
    LET starts == {i \in 1..Len(line) : HexMatchAt(line, i)}
    IN  IF starts = {}
        THEN [kind |-> "None", samples |-> <<>>]
        ELSE LET i == CHOOSE j \in starts : \A k \in starts : j <= k
                 hex_data == HexGroupAt(line, i)
             IN  [kind |-> "list", samples |-> HexSamples(HexValues(hex_data, 0), 0)]

\* the copy in visualizer.py
parse_data(line) ==
    LET starts == {i \in 1..Len(line) : HexMatchAt(line, i)}
    IN  IF starts = {}
        THEN [kind |-> "None", samples |-> <<>>]
        ELSE LET i == CHOOSE j \in starts : \A k \in starts : j <= k
                 hex_data == HexGroupAt(line, i)
             IN  [kind |-> "list", samples |-> HexSamples(HexValues(hex_data, 0), 0)]

-----------------------------------------------------------------------------
(* Harness for the labeled-scalar parser: a line is built from its fields   *)
(* and handed to both copies of parse_arduino_data.                         *)
IntAlphabetNo == {"0", "7"}
IntAlphabetValue == {"4"}
VoltAlphabet == {"0", "5", "."}
LineShapes == {"ok", "badprefix", "nounit"}
GapChoices == {<<>>, <<" ">>}

BuildLine(f) ==
    (IF f.shape = "badprefix" THEN <<"C">> \o Tail(Prefix) ELSE Prefix)
        \o f.n \o f.gap \o <<":">> \o f.gap \o f.gap \o f.c \o f.gap \o <<",">>
        \o f.gap \o f.v
        \o (IF f.shape = "nounit" THEN <<"V">> ELSE UnitLit)

Pending == [kind |-> "pending", circuit_no |-> 0, circuit_value |-> 0, voltage |-> [m |-> 0, e |-> 0]]
NoFields == [shape |-> "none", n |-> <<>>, c |-> <<>>, v |-> <<>>, gap |-> <<>>]

ParseArduino ==
    /\ psFields # NoFields
    /\ psResult = Pending
    /\ psResult' = parse_arduino_data(psLine)
    /\ UNCHANGED <<psLine, psFields, psResultSingle>>

ParseArduinoSingle ==
    /\ psFields # NoFields
    /\ psResultSingle = Pending
    /\ psResultSingle' = parse_arduino_data_single(psLine)
    /\ UNCHANGED <<psLine, psFields, psResult>>

(* Harness for the hex frame decoder *)
HexAlphabet == {"1", "f"}
HexHeads == {"plain", "embedded", "wrongnode"}
HexTails == {<<>>, <<",", "1", "2">>}

BuildFrame(f) ==
    (CASE f.head = "plain" -> HexHeader \o <<"0", "1", ":">>
       [] f.head = "embedded" -> <<"x">> \o HexHeader \o <<"7", ":">>
       [] f.head = "wrongnode" -> <<"0", "0", ",", "0", "0", "0", "5", ",", "0", "1", ":">>)
        \o f.payload \o f.tail

HexPending == [kind |-> "pending", samples |-> <<>>]
NoFrame == [head |-> "none", payload |-> <<>>, tail |-> <<>>]

ParseReceived ==
    /\ hxFields # NoFrame
    /\ hxResult = HexPending
    /\ hxResult' = parse_received_data(hxLine)
    /\ UNCHANGED <<hxLine, hxFields, hxResultVis>>

ParseVisualizer ==
    /\ hxFields # NoFrame
    /\ hxResultVis = HexPending
    /\ hxResultVis' = parse_data(hxLine)
    /\ UNCHANGED <<hxLine, hxFields, hxResult>>

-----------------------------------------------------------------------------
(* arduino_recorder.py                                                      *)
Threads == 1..2                 \* one read_from_arduino thread per opened port
expected_circuits == 1..12      \* range(1, 13)
ParseFailLimit == 10            \* data_receive_errors[idx] > 10
SilentLimit == 20               \* data_receive_errors[idx] > 20
IoFailLimit == 5                \* data_receive_errors[idx] > 5
StaleSeconds == 10              \* current_time_stamp - last_data_time[circuit_no] > 10
CheckEvery == 20                \* data_timeout_check % 20 == 0
TotalErrorLimit == 100          \* total_errors > 100
TicksPerSecond == 10            \* the clock counts tenths of a second
buffer_size == 1000             \* receiver.py: self.buffer_size = 1000
\* single_sensor_recorder.py: latest_data = None, and a row with '' in both cells
NoData == [empty |-> TRUE, circuit_value |-> 0, voltage |-> [m |-> 0, e |-> 0]]
IoFailLimitSingle == 5          \* single_sensor_recorder.py: data_receive_errors > 5

(* Bounds of the recorder model *)
MaxErrors == 6       \* cap on data_receive_errors[idx] when the sampler runs
MaxErrorsSolo == 12  \* cap on data_receive_errors[idx] for a thread on its own
MaxErrorsQuiet == 22 \* cap on data_receive_errors[idx] for a thread on a silent port
MaxReads == 13       \* reads a thread on its own makes
MaxReadsQuiet == 23  \* reads a thread on a silent port makes
MaxErrorsTotals == 51 \* cap on data_receive_errors[idx] when the totals are followed
MaxTicksTotals == 41 \* rows the sampler writes when the totals are followed
MaxTicks == 2        \* rows the sampler writes
SleepTicks == 1       \* time.sleep(0.1)

\* a dict, as a function on its key set
EmptyDict == [k \in {} |-> 0]
\* variant of Store that keeps the entry a key already has
StoreKeepsFirst(d, k, v) == [c \in (DOMAIN d) \cup {k} |-> IF c \in DOMAIN d THEN d[c] ELSE v]
\* d[k] = v
Store(d, k, v) == [c \in (DOMAIN d) \cup {k} |-> IF c = k THEN v ELSE d[c]]
\* the same for an observer's record
Noted(d, k, v) == [c \in (DOMAIN d) \cup {k} |-> IF c = k THEN v ELSE d[c]]

RECURSIVE AscSeq(_)
AscSeq(S) ==
    IF S = {} THEN <<>>
    ELSE LET m == CHOOSE x \in S : \A y \in S : x <= y
         IN  <<m>> \o AscSeq(S \ {m})

(* What ser.readline() can deliver: an exception of the transport, an empty *)
(* line after the timeout, or a line of text.                               *)
LineA == [shape |-> "ok", n |-> <<"1">>, c |-> <<"3", "4", "8">>,
          v |-> <<"1", ".", "7", "3", "9", "9", "8", "0", "5">>, gap |-> <<" ">>]
LineB == [shape |-> "ok", n |-> <<"1">>, c |-> <<"7">>, v |-> <<"0", ".", "5">>, gap |-> <<" ">>]
LineOut == [shape |-> "ok", n |-> <<"1", "3">>, c |-> <<"1">>, v |-> <<"1">>, gap |-> <<" ">>]
LineBadFloat == [shape |-> "ok", n |-> <<"1">>, c |-> <<"3", "4", "8">>,
                 v |-> <<"1", ".", "2", ".", "3">>, gap |-> <<" ">>]
LineGarbage == [shape |-> "nounit", n |-> <<"1">>, c |-> <<"3", "4", "8">>, v |-> <<"1">>, gap |-> <<" ">>]

IoFailure == [kind |-> "io", f |-> NoFields]
EmptyRead == [kind |-> "empty", f |-> NoFields]
TextLine(f) == [kind |-> "line", f |-> f]

SoloInputs == {IoFailure, EmptyRead} \cup
              {TextLine(f) : f \in {LineA, LineB, LineOut, LineBadFloat, LineGarbage}}
\* in the recorder, port 0 carries the Arduino of circuit 1 and port 1 an
\* Arduino that delivers nothing parseable
RecorderInputs(w) ==
    IF w = 1
    THEN {IoFailure, EmptyRead} \cup {TextLine(f) : f \in {LineA, LineB, LineGarbage}}
    ELSE {IoFailure, EmptyRead, TextLine(LineGarbage)}

\* line = ser.readline().decode('utf-8').strip()
LineOf(inp) == IF inp.kind = "line" THEN BuildLine(inp.f) ELSE <<>>

\* parsed = parse_arduino_data(line), for every input a thread can be given
Parsed == [inp \in SoloInputs |-> parse_arduino_data(LineOf(inp))]

\* which branch of the loop body an input takes
BranchOf(inp) ==
    IF inp.kind = "io" THEN "except"
    ELSE IF inp.kind = "empty" THEN "silent"
    ELSE CASE Parsed[inp].kind = "ValueError" -> "except"
           [] Parsed[inp].kind = "None" -> "unparsed"
           [] Parsed[inp].kind = "ok" -> "parsed"

\* circuits some input of the recorder can store to
StoredCircuits ==
    {Parsed[inp].circuit_no :
        inp \in {i \in UNION {RecorderInputs(w) : w \in Threads} : BranchOf(i) = "parsed"}}

\* tag telling the stores to one circuit apart (observer, kept with the entry)
NewStamp(c) ==
    IF c \in DOMAIN latest_circuit_data THEN 1 - latest_circuit_data[c].stamp ELSE 0

\* IM920sReceiver.__init__, and the program about to call run()
InitReceiver ==
    /\ rpc = "connect"
    /\ leaving = "no"
    /\ ser = "none"
    /\ csv_file = "none"
    /\ csv_writer = FALSE
    /\ data_buffer = [A1 |-> <<>>, A2 |-> <<>>, A3 |-> <<>>, timestamps |-> <<>>]
    /\ csv_out = <<>>
    /\ csv_flushed = 0
    /\ samples = <<>>
    /\ current_time = 0
    /\ rnow = 0
    /\ expected = <<>>

InitRecorder ==
    /\ latest_circuit_data = EmptyDict
    /\ last_data_time = EmptyDict
    /\ data_receive_errors = [w \in Threads |-> 0]
    /\ wpc = [w \in Threads |-> "read"]
    /\ wcircuit = [w \in Threads |-> [circuit_no |-> 0, stamp |-> 0]]
    /\ spc = "begin"
    /\ circuit_no = 1
    /\ current_time_stamp = 0
    /\ stale_circuits = <<>>
    /\ row = [timestamp |-> 0, cells |-> <<>>]
    /\ data_timeout_check = 0
    /\ csv_rows = 0
    /\ flushed = 0
    /\ total_warnings = 0
    /\ now = 0
    /\ is_open = [w \in Threads |-> TRUE]
    /\ sink_open = TRUE
    /\ sink_failed = FALSE
    /\ main_printed = {}
    /\ pc_single = "loop"
    /\ stopped_single = "no"
    /\ data_receive_errors_single = 0
    /\ latest_data = NoData
    /\ row_single = NoData
    /\ csv_rows_single = 0
    /\ ser_open_single = TRUE
    /\ timeSeen = EmptyDict
    /\ storedInTick = {}
    /\ lastStored = EmptyDict
    /\ reads = [w \in Threads |-> 0]
    /\ runKind = [w \in Threads |-> "none"]
    /\ ioTally = [w \in Threads |-> 0]
    /\ parseTally = [w \in Threads |-> 0]
    /\ silentTally = [w \in Threads |-> 0]
    /\ parseWarnings = [w \in Threads |-> 0]
    /\ printed = [w \in Threads |-> "none"]

\* the threshold tests of lines 91, 96 and 101
ParseWarnAtLimit(errors) == errors >= ParseFailLimit
ParseWarn(errors) == errors > ParseFailLimit
SilentWarnAtLimit(errors) == errors >= SilentLimit
SilentWarn(errors) == errors > SilentLimit
IoFatalAtLimit(errors) == errors >= IoFailLimit
IoFatal(errors) == errors > IoFailLimit

\* variant of CountError in which a thread that gives up takes the others with it
CountErrorStopsAll(w, next) ==
    /\ data_receive_errors' = [data_receive_errors EXCEPT ![w] = @ + 1]
    /\ wpc' = IF next = "failed" THEN [x \in Threads |-> "failed"] ELSE [wpc EXCEPT ![w] = next]
    /\ UNCHANGED <<registryVars, wcircuit, lastStored, storedInTick>>

\* the error branches: data_receive_errors[idx] += 1, then break or loop
CountError(w, next) ==
    /\ data_receive_errors' = [data_receive_errors EXCEPT ![w] = @ + 1]
    /\ wpc' = [wpc EXCEPT ![w] = next]
    /\ UNCHANGED <<registryVars, wcircuit, lastStored, storedInTick>>

\* lines 80-85 and 89-103: one readline, parse_arduino_data, and either the
\* store into latest_circuit_data or the error branch taken
ReadLine(w, inp, cap) ==
    /\ wpc[w] = "read"
    /\ spc # "exited"
    /\ LET parsed == Parsed[inp]
       IN  IF inp.kind = "io" \/ (inp.kind = "line" /\ parsed.kind = "ValueError")
           THEN /\ data_receive_errors[w] < cap
                /\ CountError(w, IF IoFatal(data_receive_errors[w] + 1)
                                 THEN "failed" ELSE "read")
           ELSE IF inp.kind = "empty" \/ parsed.kind = "None"
           THEN /\ data_receive_errors[w] < cap
                /\ CountError(w, "read")
           ELSE /\ latest_circuit_data' =
                       Store(latest_circuit_data, parsed.circuit_no,
                             [circuit_value |-> parsed.circuit_value,
                              voltage |-> parsed.voltage,
                              stamp |-> NewStamp(parsed.circuit_no)])
                /\ wcircuit' = [wcircuit EXCEPT ![w] =
                       [circuit_no |-> parsed.circuit_no, stamp |-> NewStamp(parsed.circuit_no)]]
                /\ wpc' = [wpc EXCEPT ![w] = "store_time"]
                /\ lastStored' = Noted(lastStored, parsed.circuit_no, inp.f)
                /\ storedInTick' = storedInTick \cup {parsed.circuit_no}
                /\ UNCHANGED <<last_data_time, data_receive_errors>>
    /\ UNCHANGED <<samplerVars, timeSeen>>

\* line 86: last_data_time[circuit_no] = time.time()
StoreTime(w) ==
    /\ wpc[w] = "store_time"
    /\ spc # "exited"
    /\ last_data_time' = Store(last_data_time, wcircuit[w].circuit_no,
                               [t |-> now, stamp |-> wcircuit[w].stamp])
    /\ wpc' = [wpc EXCEPT ![w] = "reset"]
    /\ UNCHANGED <<latest_circuit_data, data_receive_errors, wcircuit, samplerVars,
                   tickObsVars, lastStored>>

\* line 88: data_receive_errors[idx] = 0
ResetErrors(w) ==
    /\ wpc[w] = "reset"
    /\ spc # "exited"
    /\ data_receive_errors' = [data_receive_errors EXCEPT ![w] = 0]
    /\ wpc' = [wpc EXCEPT ![w] = "read"]
    /\ UNCHANGED <<registryVars, wcircuit, samplerVars, tickObsVars, lastStored>>

\* what an iteration prints, from the counter value after the increment
PrintOf(branch, errors) ==
    CASE branch = "except" -> (IF IoFatal(errors) THEN "fatal" ELSE "io_error")
      [] branch = "unparsed" -> (IF ParseWarn(errors) THEN "parse_warning" ELSE "none")
      [] branch = "silent" -> (IF SilentWarn(errors) THEN "silent_warning" ELSE "none")
      [] branch = "parsed" -> "none"

\* observer of one thread's reads
Observe(w, inp, maxReads) ==
    LET branch == BranchOf(inp)
        kind == IF inp.kind = "io" THEN "io"
                ELSE IF branch = "except" THEN "bad_number" ELSE branch
        out == PrintOf(branch, data_receive_errors[w] + 1)
    IN  /\ reads[w] < maxReads
        /\ reads' = [reads EXCEPT ![w] = @ + 1]
        /\ runKind' = [runKind EXCEPT ![w] =
               IF reads[w] = 0 \/ runKind[w] = kind THEN kind ELSE "mixed"]
        /\ ioTally' = [ioTally EXCEPT ![w] = IF branch = "except" THEN @ + 1 ELSE 0]
        /\ parseTally' = [parseTally EXCEPT ![w] =
               IF branch = "unparsed" THEN @ + 1 ELSE IF branch = "parsed" THEN 0 ELSE @]
        /\ silentTally' = [silentTally EXCEPT ![w] =
               IF branch = "silent" THEN @ + 1 ELSE IF branch = "parsed" THEN 0 ELSE @]
        /\ parseWarnings' = [parseWarnings EXCEPT ![w] =
               IF out = "parse_warning" THEN @ + 1 ELSE @]
        /\ printed' = [printed EXCEPT ![w] = out]

-----------------------------------------------------------------------------
(* The recording loop, lines 152-191.  A for loop over range(1, 13) reads   *)
(* one dict entry per iteration; an iteration over a circuit that no input  *)
(* can store to commutes with every thread step and is taken together with  *)
(* the iteration before it.                                                 *)
ScanEnd(i, hot) ==
    LET later == {j \in hot : j > i /\ j \in expected_circuits}
    IN  IF later = {} THEN 13 ELSE CHOOSE j \in later : \A k \in later : j <= k

EmptyCell == [empty |-> TRUE, circuit_value |-> 0, voltage_value |-> [m |-> 0, e |-> 0], stamp |-> -1]

\* variant of CellOf that takes the voltage from another line than the count
CellOfMixed(c) ==
    IF c \in DOMAIN latest_circuit_data
    THEN [empty |-> FALSE,
          circuit_value |-> latest_circuit_data[c].circuit_value,
          voltage_value |-> Parsed[TextLine(LineB)].voltage,
          stamp |-> latest_circuit_data[c].stamp]
    ELSE EmptyCell

\* variant of CellOf that fills the last column from the key after it
CellOfNextKey(c) ==
    LET k == IF c = 12 /\ (c + 1) \in DOMAIN latest_circuit_data THEN c + 1 ELSE c
    IN  IF k \in DOMAIN latest_circuit_data
        THEN [empty |-> FALSE,
              circuit_value |-> latest_circuit_data[k].circuit_value,
              voltage_value |-> latest_circuit_data[k].voltage,
              stamp |-> latest_circuit_data[k].stamp]
        ELSE EmptyCell

\* variant of CellOf that writes zeros for a circuit without data
CellOfZero(c) ==
    IF c \in DOMAIN latest_circuit_data
    THEN [empty |-> FALSE,
          circuit_value |-> latest_circuit_data[c].circuit_value,
          voltage_value |-> latest_circuit_data[c].voltage,
          stamp |-> latest_circuit_data[c].stamp]
    ELSE [empty |-> FALSE, circuit_value |-> 0, voltage_value |-> [m |-> 0, e |-> 0], stamp |-> -1]

\* lines 174-178
CellOf(c) ==
    IF c \in DOMAIN latest_circuit_data
    THEN [empty |-> FALSE,
          circuit_value |-> latest_circuit_data[c].circuit_value,
          voltage_value |-> latest_circuit_data[c].voltage,
          stamp |-> latest_circuit_data[c].stamp]
    ELSE EmptyCell

\* variant of IsStale that flags a circuit at exactly ten seconds
IsStaleAtLimit(c) ==
    /\ c \in DOMAIN last_data_time
    /\ current_time_stamp - last_data_time[c].t >= StaleSeconds * TicksPerSecond

\* lines 165-167
IsStale(c) ==
    /\ c \in DOMAIN last_data_time
    /\ current_time_stamp - last_data_time[c].t > StaleSeconds * TicksPerSecond

\* variant of BeginRow that starts a row only while no thread is between a
\* store and the reset of its counter
BeginRowWaits(maxTicks) ==
    /\ spc = "begin"
    /\ \A w \in Threads : wpc[w] \in {"read", "failed"}
    /\ data_timeout_check < maxTicks
    /\ row' = [timestamp |-> now \div TicksPerSecond, cells |-> <<>>]
    /\ current_time_stamp' = now
    /\ stale_circuits' = <<>>
    /\ circuit_no' = 1
    /\ spc' = "stale"
    /\ timeSeen' = EmptyDict
    /\ storedInTick' = {}
    /\ UNCHANGED <<data_timeout_check, csv_rows, flushed, total_warnings, now>>
    /\ UNCHANGED <<registryVars, workerVars, lastStored>>

\* lines 154-163
BeginRow(maxTicks) ==
    /\ spc = "begin"
    /\ data_timeout_check < maxTicks
    /\ row' = [timestamp |-> now \div TicksPerSecond, cells |-> <<>>]
    /\ current_time_stamp' = now
    /\ stale_circuits' = <<>>
    /\ circuit_no' = 1
    /\ spc' = "stale"
    /\ timeSeen' = EmptyDict
    /\ storedInTick' = {}
    /\ UNCHANGED <<data_timeout_check, csv_rows, flushed, total_warnings, now>>
    /\ UNCHANGED <<registryVars, workerVars, lastStored>>

\* variant of StaleScan in which the loop clears the threads' error counters
StaleScanResets(hot) ==
    /\ spc = "stale"
    /\ LET e == ScanEnd(circuit_no, hot)
           range == circuit_no..(e - 1)
       IN  /\ stale_circuits' = stale_circuits \o AscSeq({c \in range : IsStale(c)})
           /\ timeSeen' = [c \in (DOMAIN timeSeen) \cup range |->
                              IF c \in range
                              THEN (IF c \in DOMAIN last_data_time
                                    THEN last_data_time[c].stamp ELSE -1)
                              ELSE timeSeen[c]]
           /\ IF e = 13
              THEN spc' = "row" /\ circuit_no' = 1
              ELSE spc' = "stale" /\ circuit_no' = e
    /\ data_receive_errors' = [w \in Threads |-> 0]
    /\ UNCHANGED <<current_time_stamp, row, data_timeout_check, csv_rows, flushed, total_warnings, now>>
    /\ UNCHANGED <<registryVars, wpc, wcircuit, lastStored, storedInTick>>

\* lines 164-170
StaleScan(hot) ==
    /\ spc = "stale"
    /\ LET e == ScanEnd(circuit_no, hot)
           range == circuit_no..(e - 1)
       IN  /\ stale_circuits' = stale_circuits \o AscSeq({c \in range : IsStale(c)})
           /\ timeSeen' = [c \in (DOMAIN timeSeen) \cup range |->
                              IF c \in range
                              THEN (IF c \in DOMAIN last_data_time
                                    THEN last_data_time[c].stamp ELSE -1)
                              ELSE timeSeen[c]]
           /\ IF e = 13
              THEN spc' = "row" /\ circuit_no' = 1
              ELSE spc' = "stale" /\ circuit_no' = e
    /\ UNCHANGED <<current_time_stamp, row, data_timeout_check, csv_rows, flushed, total_warnings, now>>
    /\ UNCHANGED <<registryVars, workerVars, lastStored, storedInTick>>

\* variant of RowScan that leaves the cells empty once a thread has given up
RowScanLiveOnly(hot) ==
    /\ spc = "row"
    /\ LET e == ScanEnd(circuit_no, hot)
       IN  /\ row' = [row EXCEPT !.cells =
                         @ \o [k \in 1..(e - circuit_no) |->
                                  IF \E w \in Threads : wpc[w] = "failed"
                                  THEN EmptyCell ELSE CellOf(circuit_no + k - 1)]]
           /\ IF e = 13
              THEN spc' = "write" /\ circuit_no' = 12
              ELSE spc' = "row" /\ circuit_no' = e
    /\ UNCHANGED <<current_time_stamp, stale_circuits, data_timeout_check, csv_rows,
                   flushed, total_warnings, now>>
    /\ UNCHANGED <<registryVars, workerVars, lastStored, tickObsVars>>

\* lines 173-178
RowScan(hot) ==
    /\ spc = "row"
    /\ LET e == ScanEnd(circuit_no, hot)
       IN  /\ row' = [row EXCEPT !.cells =
                         @ \o [k \in 1..(e - circuit_no) |-> CellOf(circuit_no + k - 1)]]
           /\ IF e = 13
              THEN spc' = "write" /\ circuit_no' = 12
              ELSE spc' = "row" /\ circuit_no' = e
    /\ UNCHANGED <<current_time_stamp, stale_circuits, data_timeout_check, csv_rows,
                   flushed, total_warnings, now>>
    /\ UNCHANGED <<registryVars, workerVars, lastStored, tickObsVars>>

\* line 180: writer.writerow(row)
WriteRow ==
    /\ spc = "write"
    /\ csv_rows' = csv_rows + 1
    /\ spc' = "flush"
    /\ UNCHANGED <<circuit_no, current_time_stamp, stale_circuits, row, data_timeout_check,
                   flushed, total_warnings, now>>
    /\ UNCHANGED <<registryVars, workerVars, lastStored, tickObsVars>>

\* variant of FlushRow that leaves the row in the buffer
FlushRowSkipped ==
    /\ spc = "flush"
    /\ flushed' = flushed
    /\ spc' = "check"
    /\ UNCHANGED <<circuit_no, current_time_stamp, stale_circuits, row, data_timeout_check,
                   csv_rows, total_warnings, now>>
    /\ UNCHANGED <<registryVars, workerVars, lastStored, tickObsVars>>

\* line 181: f.flush()
FlushRow ==
    /\ spc = "flush"
    /\ flushed' = csv_rows
    /\ spc' = "check"
    /\ UNCHANGED <<circuit_no, current_time_stamp, stale_circuits, row, data_timeout_check,
                   csv_rows, total_warnings, now>>
    /\ UNCHANGED <<registryVars, workerVars, lastStored, tickObsVars>>

\* sum(data_receive_errors.values())
RECURSIVE SumErrors(_)
SumErrors(S) ==
    IF S = {} THEN 0
    ELSE LET w == CHOOSE x \in S : TRUE
         IN  data_receive_errors[w] + SumErrors(S \ {w})

\* variant of CheckTotals that warns at a total of exactly one hundred
CheckTotalsAtLimit ==
    /\ spc = "check"
    /\ data_timeout_check' = data_timeout_check + 1
    /\ total_warnings' =
           IF (data_timeout_check + 1) % CheckEvery = 0 /\ SumErrors(Threads) >= TotalErrorLimit
           THEN total_warnings + 1 ELSE total_warnings
    /\ spc' = "sleep"
    /\ UNCHANGED <<circuit_no, current_time_stamp, stale_circuits, row, csv_rows,
                   flushed, now>>
    /\ UNCHANGED <<registryVars, workerVars, lastStored, tickObsVars>>

\* lines 184-189
CheckTotals ==
    /\ spc = "check"
    /\ data_timeout_check' = data_timeout_check + 1
    /\ total_warnings' =
           IF (data_timeout_check + 1) % CheckEvery = 0 /\ SumErrors(Threads) > TotalErrorLimit
           THEN total_warnings + 1 ELSE total_warnings
    /\ spc' = "sleep"
    /\ UNCHANGED <<circuit_no, current_time_stamp, stale_circuits, row, csv_rows,
                   flushed, now>>
    /\ UNCHANGED <<registryVars, workerVars, lastStored, tickObsVars>>

\* line 191
Sleep ==
    /\ spc = "sleep"
    /\ now' = now + SleepTicks
    /\ spc' = "begin"
    /\ UNCHANGED <<circuit_no, current_time_stamp, stale_circuits, row, data_timeout_check,
                   csv_rows, flushed, total_warnings>>
    /\ UNCHANGED <<registryVars, workerVars, lastStored, tickObsVars>>

\* line 191 when the main thread is resumed late: time.sleep returns after at
\* least 0.1 s; here after exactly ten seconds or just over ten seconds
LongPauses == {StaleSeconds * TicksPerSecond, StaleSeconds * TicksPerSecond + 1}

Oversleep ==
    /\ spc = "sleep"
    /\ \E d \in LongPauses : now' = now + d
    /\ spc' = "begin"
    /\ UNCHANGED <<circuit_no, current_time_stamp, stale_circuits, row, data_timeout_check,
                   csv_rows, flushed, total_warnings>>
    /\ UNCHANGED <<registryVars, workerVars, lastStored, tickObsVars>>

-----------------------------------------------------------------------------
(* The ways out of the recording loop, lines 142 and 194-199.  The threads  *)
(* are daemon threads (line 118): nothing tells them to stop, they run      *)
(* until the main thread has ended, and no port is ever closed.             *)
LoopPcs == {"begin", "stale", "row", "write", "flush", "check", "sleep"}

\* Ctrl+C: KeyboardInterrupt is raised in the main thread wherever it is in the loop
KeyboardInterrupt ==
    /\ spc \in LoopPcs
    /\ spc' = "interrupted"
    /\ UNCHANGED <<circuit_no, current_time_stamp, stale_circuits, row, data_timeout_check,
                   csv_rows, flushed, total_warnings, now>>
    /\ UNCHANGED <<registryVars, workerVars, lastStored, tickObsVars, exitVars>>

\* line 180 raises: the row is not appended
WriteFails ==
    /\ spc = "write"
    /\ spc' = "errored"
    /\ sink_failed' = TRUE
    /\ UNCHANGED <<circuit_no, current_time_stamp, stale_circuits, row, data_timeout_check,
                   csv_rows, flushed, total_warnings, now>>
    /\ UNCHANGED <<registryVars, workerVars, lastStored, tickObsVars, is_open, sink_open,
                   main_printed>>

\* variant of FlushFails in which the loop carries on after the failure
FlushFailsIgnored ==
    /\ spc = "flush"
    /\ spc' = "check"
    /\ sink_failed' = TRUE
    /\ UNCHANGED <<circuit_no, current_time_stamp, stale_circuits, row, data_timeout_check,
                   csv_rows, flushed, total_warnings, now>>
    /\ UNCHANGED <<registryVars, workerVars, lastStored, tickObsVars, is_open, sink_open,
                   main_printed>>

\* line 181 raises: the row stays in the buffer
FlushFails ==
    /\ spc = "flush"
    /\ spc' = "errored"
    /\ sink_failed' = TRUE
    /\ UNCHANGED <<circuit_no, current_time_stamp, stale_circuits, row, data_timeout_check,
                   csv_rows, flushed, total_warnings, now>>
    /\ UNCHANGED <<registryVars, workerVars, lastStored, tickObsVars, is_open, sink_open,
                   main_printed>>

\* variant of LeaveWith that leaves the file open
LeaveWithOpen(message, ok) ==
    /\ sink_open' = sink_open
    /\ IF flushed < csv_rows /\ ~ok
       THEN /\ flushed' = flushed
            /\ sink_failed' = TRUE
            /\ main_printed' = {message, "traceback"}
       ELSE /\ flushed' = csv_rows
            /\ sink_failed' = sink_failed
            /\ main_printed' = {message}

\* the end of the with block of line 142: f.close() writes what is still in
\* the buffer and closes the file; if that write raises, the file is closed
\* all the same and the exception leaves the program with a traceback
LeaveWith(message, ok) ==
    /\ sink_open' = FALSE
    /\ IF flushed < csv_rows /\ ~ok
       THEN /\ flushed' = flushed
            /\ sink_failed' = TRUE
            /\ main_printed' = {message, "traceback"}
       ELSE /\ flushed' = csv_rows
            /\ sink_failed' = sink_failed
            /\ main_printed' = {message}

\* lines 194-196, then the end of the with block and of the program
HandleInterrupt ==
    /\ spc = "interrupted"
    /\ \E ok \in BOOLEAN : LeaveWith("stopped", ok)
    /\ spc' = "exited"
    /\ UNCHANGED <<circuit_no, current_time_stamp, stale_circuits, row, data_timeout_check,
                   csv_rows, total_warnings, now>>
    /\ UNCHANGED <<registryVars, workerVars, lastStored, tickObsVars, is_open>>

\* lines 197-199, then the end of the with block and of the program
HandleException ==
    /\ spc = "errored"
    /\ \E ok \in BOOLEAN : LeaveWith("unexpected_error", ok)
    /\ spc' = "exited"
    /\ UNCHANGED <<circuit_no, current_time_stamp, stale_circuits, row, data_timeout_check,
                   csv_rows, total_warnings, now>>
    /\ UNCHANGED <<registryVars, workerVars, lastStored, tickObsVars, is_open>>

-----------------------------------------------------------------------------
vars == <<parseVars, hexVars, singleVars, receiverVars, registryVars, workerVars, samplerVars, exitVars,
          tickObsVars, lastStored, workerObsVars>>

loggerVars == <<registryVars, workerVars, samplerVars, exitVars, tickObsVars, lastStored,
                workerObsVars>>
recorderVars == <<singleVars, receiverVars, loggerVars>>

\* the parsers on their own
NextParse ==
    \/ ParseArduino /\ UNCHANGED <<hexVars, recorderVars>>
    \/ ParseArduinoSingle /\ UNCHANGED <<hexVars, recorderVars>>

InitParseOnly ==
    /\ psFields \in [shape : LineShapes,
                     n : SeqsOf(IntAlphabetNo, 1, MaxIntLen),
                     c : SeqsOf(IntAlphabetValue, 1, MaxIntLen),
                     v : SeqsOf(VoltAlphabet, 1, MaxVoltLen),
                     gap : GapChoices]
    /\ psLine = BuildLine(psFields)
    /\ psResult = Pending
    /\ psResultSingle = Pending
    /\ hxLine = <<>>
    /\ hxFields = NoFrame
    /\ hxResult = HexPending
    /\ hxResultVis = HexPending
    /\ InitRecorder
    /\ InitReceiver

SpecParse == InitParseOnly /\ [][NextParse]_vars

NextHex ==
    \/ ParseReceived /\ UNCHANGED <<parseVars, recorderVars>>
    \/ ParseVisualizer /\ UNCHANGED <<parseVars, recorderVars>>

InitHexOnly ==
    /\ hxFields \in [head : HexHeads,
                     payload : SeqsOf(HexAlphabet, 0, MaxHexLen),
                     tail : HexTails]
    /\ hxLine = BuildFrame(hxFields)
    /\ hxResult = HexPending
    /\ hxResultVis = HexPending
    /\ psLine = <<>>
    /\ psFields = NoFields
    /\ psResult = Pending
    /\ psResultSingle = Pending
    /\ InitRecorder
    /\ InitReceiver

SpecHex == InitHexOnly /\ [][NextHex]_vars

\* the recorder: every thread and the recording loop
Init ==
    /\ psLine = <<>>
    /\ psFields = NoFields
    /\ psResult = Pending
    /\ psResultSingle = Pending
    /\ hxLine = <<>>
    /\ hxFields = NoFrame
    /\ hxResult = HexPending
    /\ hxResultVis = HexPending
    /\ InitRecorder
    /\ InitReceiver

Next ==
    \/ \E w \in Threads : \E inp \in RecorderInputs(w) :
           ReadLine(w, inp, MaxErrors) /\ UNCHANGED <<parseVars, hexVars, singleVars, receiverVars, exitVars, workerObsVars>>
    \/ \E w \in Threads : StoreTime(w) /\ UNCHANGED <<parseVars, hexVars, singleVars, receiverVars, exitVars, workerObsVars>>
    \/ \E w \in Threads : ResetErrors(w) /\ UNCHANGED <<parseVars, hexVars, singleVars, receiverVars, exitVars, workerObsVars>>
    \/ BeginRow(MaxTicks) /\ UNCHANGED <<parseVars, hexVars, singleVars, receiverVars, exitVars, workerObsVars>>
    \/ StaleScan(StoredCircuits) /\ UNCHANGED <<parseVars, hexVars, singleVars, receiverVars, exitVars, workerObsVars>>
    \/ RowScan(StoredCircuits) /\ UNCHANGED <<parseVars, hexVars, singleVars, receiverVars, exitVars, workerObsVars>>
    \/ WriteRow /\ UNCHANGED <<parseVars, hexVars, singleVars, receiverVars, exitVars, workerObsVars>>
    \/ FlushRow /\ UNCHANGED <<parseVars, hexVars, singleVars, receiverVars, exitVars, workerObsVars>>
    \/ CheckTotals /\ UNCHANGED <<parseVars, hexVars, singleVars, receiverVars, exitVars, workerObsVars>>
    \/ Sleep /\ UNCHANGED <<parseVars, hexVars, singleVars, receiverVars, exitVars, workerObsVars>>

Spec == Init /\ [][Next]_vars

\* the recorder with a main thread that is always scheduled again: sleep
\* returns, the writes to the file return, and the interpreter hands the
\* main thread the lock whatever the other threads do
MainThreadStep ==
    /\ \/ BeginRow(MaxTicks)
       \/ StaleScan(StoredCircuits)
       \/ RowScan(StoredCircuits)
       \/ WriteRow
       \/ FlushRow
       \/ CheckTotals
       \/ Sleep
    /\ UNCHANGED <<parseVars, hexVars, singleVars, receiverVars, exitVars, workerObsVars>>

SpecLive == Init /\ [][Next]_vars /\ WF_vars(MainThreadStep)

\* the recorder with a main thread that can be resumed late; port 0 delivers
\* lines for circuit 1, port 1 is silent
StaleInputs(w) == IF w = 1 THEN {TextLine(LineA), TextLine(LineB)} ELSE {EmptyRead}

NextStale ==
    \/ \E w \in Threads : \E inp \in StaleInputs(w) :
           ReadLine(w, inp, MaxErrors) /\ UNCHANGED <<parseVars, hexVars, singleVars, receiverVars, exitVars, workerObsVars>>
    \/ \E w \in Threads : StoreTime(w) /\ UNCHANGED <<parseVars, hexVars, singleVars, receiverVars, exitVars, workerObsVars>>
    \/ \E w \in Threads : ResetErrors(w) /\ UNCHANGED <<parseVars, hexVars, singleVars, receiverVars, exitVars, workerObsVars>>
    \/ BeginRow(MaxTicks) /\ UNCHANGED <<parseVars, hexVars, singleVars, receiverVars, exitVars, workerObsVars>>
    \/ StaleScan(StoredCircuits) /\ UNCHANGED <<parseVars, hexVars, singleVars, receiverVars, exitVars, workerObsVars>>
    \/ RowScan(StoredCircuits) /\ UNCHANGED <<parseVars, hexVars, singleVars, receiverVars, exitVars, workerObsVars>>
    \/ WriteRow /\ UNCHANGED <<parseVars, hexVars, singleVars, receiverVars, exitVars, workerObsVars>>
    \/ FlushRow /\ UNCHANGED <<parseVars, hexVars, singleVars, receiverVars, exitVars, workerObsVars>>
    \/ CheckTotals /\ UNCHANGED <<parseVars, hexVars, singleVars, receiverVars, exitVars, workerObsVars>>
    \/ Sleep /\ UNCHANGED <<parseVars, hexVars, singleVars, receiverVars, exitVars, workerObsVars>>
    \/ Oversleep /\ UNCHANGED <<parseVars, hexVars, singleVars, receiverVars, exitVars, workerObsVars>>

SpecStale == Init /\ [][NextStale]_vars

\* the recorder followed past its twentieth row.  The threads have been
\* running since line 121, through the 5 s wait of line 127 and the prompt of
\* line 136, so the loop can start with counters already high; here each
\* starts at half the limit of line 187 or one below it.  Both ports are
\* silent, so the counters only grow.
StartCounts == {TotalErrorLimit \div 2 - 1, TotalErrorLimit \div 2}

TotalsInputs(w) == {EmptyRead}

InitTotals ==
    /\ psLine = <<>>
    /\ psFields = NoFields
    /\ psResult = Pending
    /\ psResultSingle = Pending
    /\ hxLine = <<>>
    /\ hxFields = NoFrame
    /\ hxResult = HexPending
    /\ hxResultVis = HexPending
    /\ latest_circuit_data = EmptyDict
    /\ last_data_time = EmptyDict
    /\ data_receive_errors \in [Threads -> StartCounts]
    /\ wpc = [w \in Threads |-> "read"]
    /\ wcircuit = [w \in Threads |-> [circuit_no |-> 0, stamp |-> 0]]
    /\ spc = "begin"
    /\ circuit_no = 1
    /\ current_time_stamp = 0
    /\ stale_circuits = <<>>
    /\ row = [timestamp |-> 0, cells |-> <<>>]
    /\ data_timeout_check = 0
    /\ csv_rows = 0
    /\ flushed = 0
    /\ total_warnings = 0
    /\ now = 0
    /\ is_open = [w \in Threads |-> TRUE]
    /\ sink_open = TRUE
    /\ sink_failed = FALSE
    /\ main_printed = {}
    /\ pc_single = "loop"
    /\ stopped_single = "no"
    /\ data_receive_errors_single = 0
    /\ latest_data = NoData
    /\ row_single = NoData
    /\ csv_rows_single = 0
    /\ ser_open_single = TRUE
    /\ InitReceiver
    /\ timeSeen = EmptyDict
    /\ storedInTick = {}
    /\ lastStored = EmptyDict
    /\ reads = [w \in Threads |-> 0]
    /\ runKind = [w \in Threads |-> "none"]
    /\ ioTally = [w \in Threads |-> 0]
    /\ parseTally = [w \in Threads |-> 0]
    /\ silentTally = [w \in Threads |-> 0]
    /\ parseWarnings = [w \in Threads |-> 0]
    /\ printed = [w \in Threads |-> "none"]

NextTotals ==
    \/ \E w \in Threads : \E inp \in TotalsInputs(w) :
           ReadLine(w, inp, MaxErrorsTotals) /\ UNCHANGED <<parseVars, hexVars, singleVars, receiverVars, exitVars, workerObsVars>>
    \/ BeginRow(MaxTicksTotals) /\ UNCHANGED <<parseVars, hexVars, singleVars, receiverVars, exitVars, workerObsVars>>
    \/ StaleScan(StoredCircuits) /\ UNCHANGED <<parseVars, hexVars, singleVars, receiverVars, exitVars, workerObsVars>>
    \/ RowScan(StoredCircuits) /\ UNCHANGED <<parseVars, hexVars, singleVars, receiverVars, exitVars, workerObsVars>>
    \/ WriteRow /\ UNCHANGED <<parseVars, hexVars, singleVars, receiverVars, exitVars, workerObsVars>>
    \/ FlushRow /\ UNCHANGED <<parseVars, hexVars, singleVars, receiverVars, exitVars, workerObsVars>>
    \/ CheckTotals /\ UNCHANGED <<parseVars, hexVars, singleVars, receiverVars, exitVars, workerObsVars>>
    \/ Sleep /\ UNCHANGED <<parseVars, hexVars, singleVars, receiverVars, exitVars, workerObsVars>>

SpecTotals == InitTotals /\ [][NextTotals]_vars

\* the recorder with a port that also names a circuit outside 1..12; port 1
\* is silent
KeysInputs(w) == IF w = 1 THEN {TextLine(LineA), TextLine(LineOut)} ELSE {EmptyRead}

NextKeys ==
    \/ \E w \in Threads : \E inp \in KeysInputs(w) :
           ReadLine(w, inp, MaxErrors) /\ UNCHANGED <<parseVars, hexVars, singleVars, receiverVars, exitVars, workerObsVars>>
    \/ \E w \in Threads : StoreTime(w) /\ UNCHANGED <<parseVars, hexVars, singleVars, receiverVars, exitVars, workerObsVars>>
    \/ \E w \in Threads : ResetErrors(w) /\ UNCHANGED <<parseVars, hexVars, singleVars, receiverVars, exitVars, workerObsVars>>
    \/ BeginRow(MaxTicks) /\ UNCHANGED <<parseVars, hexVars, singleVars, receiverVars, exitVars, workerObsVars>>
    \/ StaleScan(StoredCircuits) /\ UNCHANGED <<parseVars, hexVars, singleVars, receiverVars, exitVars, workerObsVars>>
    \/ RowScan(StoredCircuits) /\ UNCHANGED <<parseVars, hexVars, singleVars, receiverVars, exitVars, workerObsVars>>
    \/ WriteRow /\ UNCHANGED <<parseVars, hexVars, singleVars, receiverVars, exitVars, workerObsVars>>
    \/ FlushRow /\ UNCHANGED <<parseVars, hexVars, singleVars, receiverVars, exitVars, workerObsVars>>
    \/ CheckTotals /\ UNCHANGED <<parseVars, hexVars, singleVars, receiverVars, exitVars, workerObsVars>>
    \/ Sleep /\ UNCHANGED <<parseVars, hexVars, singleVars, receiverVars, exitVars, workerObsVars>>

SpecKeys == Init /\ [][NextKeys]_vars

\* the recorder with Ctrl+C and a file that can fail; port 0 delivers one
\* line or fails, port 1 is silent
ShutdownInputs(w) == IF w = 1 THEN {IoFailure, TextLine(LineA)} ELSE {EmptyRead}

NextShutdown ==
    \/ \E w \in Threads : \E inp \in ShutdownInputs(w) :
           ReadLine(w, inp, MaxErrors) /\ UNCHANGED <<parseVars, hexVars, singleVars, receiverVars, exitVars, workerObsVars>>
    \/ \E w \in Threads : StoreTime(w) /\ UNCHANGED <<parseVars, hexVars, singleVars, receiverVars, exitVars, workerObsVars>>
    \/ \E w \in Threads : ResetErrors(w) /\ UNCHANGED <<parseVars, hexVars, singleVars, receiverVars, exitVars, workerObsVars>>
    \/ BeginRow(MaxTicks) /\ UNCHANGED <<parseVars, hexVars, singleVars, receiverVars, exitVars, workerObsVars>>
    \/ StaleScan(StoredCircuits) /\ UNCHANGED <<parseVars, hexVars, singleVars, receiverVars, exitVars, workerObsVars>>
    \/ RowScan(StoredCircuits) /\ UNCHANGED <<parseVars, hexVars, singleVars, receiverVars, exitVars, workerObsVars>>
    \/ WriteRow /\ UNCHANGED <<parseVars, hexVars, singleVars, receiverVars, exitVars, workerObsVars>>
    \/ FlushRow /\ UNCHANGED <<parseVars, hexVars, singleVars, receiverVars, exitVars, workerObsVars>>
    \/ CheckTotals /\ UNCHANGED <<parseVars, hexVars, singleVars, receiverVars, exitVars, workerObsVars>>
    \/ Sleep /\ UNCHANGED <<parseVars, hexVars, singleVars, receiverVars, exitVars, workerObsVars>>
    \/ KeyboardInterrupt /\ UNCHANGED <<parseVars, hexVars, singleVars, receiverVars, workerObsVars>>
    \/ WriteFails /\ UNCHANGED <<parseVars, hexVars, singleVars, receiverVars, workerObsVars>>
    \/ FlushFails /\ UNCHANGED <<parseVars, hexVars, singleVars, receiverVars, workerObsVars>>
    \/ HandleInterrupt /\ UNCHANGED <<parseVars, hexVars, singleVars, receiverVars, workerObsVars>>
    \/ HandleException /\ UNCHANGED <<parseVars, hexVars, singleVars, receiverVars, workerObsVars>>

SpecShutdown == Init /\ [][NextShutdown]_vars

\* one thread on its own, with every kind of input, its reads observed
SoloThread == CHOOSE w \in Threads : \A o \in Threads : w <= o

NextWorker ==
    \/ \E inp \in SoloInputs :
           ReadLine(SoloThread, inp, MaxErrorsSolo) /\ Observe(SoloThread, inp, MaxReads)
               /\ UNCHANGED <<parseVars, hexVars, singleVars, receiverVars, exitVars>>
    \/ StoreTime(SoloThread) /\ UNCHANGED <<parseVars, hexVars, singleVars, receiverVars, exitVars, workerObsVars>>
    \/ ResetErrors(SoloThread) /\ UNCHANGED <<parseVars, hexVars, singleVars, receiverVars, exitVars, workerObsVars>>

SpecWorker == Init /\ [][NextWorker]_vars

\* one thread on a port that is mostly silent, followed past the limit of line 96
QuietInputs == {EmptyRead, IoFailure, TextLine(LineA)}

NextQuiet ==
    \/ \E inp \in QuietInputs :
           ReadLine(SoloThread, inp, MaxErrorsQuiet) /\ Observe(SoloThread, inp, MaxReadsQuiet)
               /\ UNCHANGED <<parseVars, hexVars, singleVars, receiverVars, exitVars>>
    \/ StoreTime(SoloThread) /\ UNCHANGED <<parseVars, hexVars, singleVars, receiverVars, exitVars, workerObsVars>>
    \/ ResetErrors(SoloThread) /\ UNCHANGED <<parseVars, hexVars, singleVars, receiverVars, exitVars, workerObsVars>>

SpecQuiet == Init /\ [][NextQuiet]_vars

-----------------------------------------------------------------------------
(* Reference values used by the parser properties, computed from the fields *)
(* the line was built from and not from the parser's output.                *)
RECURSIVE Pow10(_)
Pow10(k) == IF k = 0 THEN 1 ELSE 10 * Pow10(k - 1)

\* positional value of a digit string
RECURSIVE DigitSum(_, _)
DigitSum(s, k) ==
    IF k > Len(s) THEN 0
    ELSE DigitVal(s[k]) * Pow10(Len(s) - k) + DigitSum(s, k + 1)

WellFormedDecimal(v) ==
    /\ \A k \in 1..Len(v) : v[k] \in DigitDot
    /\ Cardinality({k \in 1..Len(v) : v[k] = "."}) <= 1
    /\ \E k \in 1..Len(v) : v[k] \in Digit

\* digits of v before and after the dot
DotPos(v) == IF \E k \in 1..Len(v) : v[k] = "."
             THEN CHOOSE k \in 1..Len(v) : v[k] = "."
             ELSE Len(v) + 1
IntPart(v) == SubSeq(v, 1, DotPos(v) - 1)
FracPart(v) == SubSeq(v, DotPos(v) + 1, Len(v))

\* x = m * 10^-e denotes the decimal written as v
SameDecimal(x, v) ==
    /\ x.e <= Len(FracPart(v))
    /\ x.m * Pow10(Len(FracPart(v)) - x.e)
           = DigitSum(IntPart(v), 1) * Pow10(Len(FracPart(v))) + DigitSum(FracPart(v), 1)

ExpectedUpdate(r, f) ==
    /\ r.kind = "ok"
    /\ r.circuit_no = DigitSum(f.n, 1)
    /\ r.circuit_value = DigitSum(f.c, 1)
    /\ SameDecimal(r.voltage, f.v)

\* C6: the frame parsers never raise: every line gives decoded updates or an
\* explicit no-match, in particular a voltage field such as '1.2.3' or '.'
\* gives no match (this is the claim as stated; the code violates it).
C6_ParsersNeverRaise ==
    /\ psResult # Pending => psResult.kind \in {"ok", "None"}
    /\ psResultSingle # Pending => psResultSingle.kind \in {"ok", "None"}
    /\ psResult # Pending /\ ~WellFormedDecimal(psFields.v) => psResult = None
    /\ hxResult # HexPending => hxResult.kind \in {"list", "None"}
    /\ hxResultVis # HexPending => hxResultVis.kind \in {"list", "None"}

\* C10: a well-formed line 'circuit No.<n> : <c> , <v>[V]' parses to exactly
\* one update whose channel id and raw count are the encoded integers and
\* whose voltage is the encoded decimal, in both copies of the parser.
C10_WellFormedLineParses ==
    (psFields.shape = "ok" /\ WellFormedDecimal(psFields.v)) =>
        /\ psResult # Pending => ExpectedUpdate(psResult, psFields)
        /\ psResultSingle # Pending => ExpectedUpdate(psResultSingle, psFields)

C10_Witness ==
    /\ psFields.shape = "ok"
    /\ psFields.n = <<"0", "7">>
    /\ psFields.c = <<"4", "4">>
    /\ psFields.v = <<"5", ".", "0", "5", "0">>
    /\ psFields.gap = <<" ">>
    /\ psResult.kind = "ok"
    /\ psResult.circuit_no = 7
    /\ psResult.voltage = [m |-> 505, e |-> 2]
    /\ psResultSingle.kind = "ok"

\* bytes and triples of a hex payload, in closed form
ExpBytes(p) == [j \in 1..(Len(p) \div 2) |-> 16 * HexVal(p[2 * j - 1]) + HexVal(p[2 * j])]
ExpTriples(b) == [k \in 1..(Len(b) \div 3) |-> <<b[3 * k - 2], b[3 * k - 1], b[3 * k]>>]

HeaderMatches(f) == f.head \in {"plain", "embedded"}

DecodedAs(r, f) ==
    IF HeaderMatches(f)
    THEN /\ r.kind = "list"
         /\ r.samples = ExpTriples(ExpBytes(f.payload))
         /\ \A k \in 1..Len(r.samples) : \A j \in 1..3 : r.samples[k][j] \in 0..255
    ELSE r.kind = "None"

C9_ZeroTriplesIsEmptyList ==
    (HeaderMatches(hxFields) /\ Len(hxFields.payload) < 6 /\ hxResult # HexPending) =>
        hxResult = [kind |-> "list", samples |-> <<>>]

-----------------------------------------------------------------------------
(* Properties of the recorder *)

\* the row of the current tick is complete (built, about to be or just written)
RowComplete == spc \in {"write", "flush", "check", "sleep"}
\* the row of the current tick has been handed to the csv writer
RowWritten == spc \in {"check", "sleep"}

\* C1: within one tick, the value put in the row for a circuit and the update
\* time used for that circuit's staleness test come from the same store
\* (this is the claim as stated; the code violates it).
C1_NoTornRead ==
    RowComplete =>
        \A c \in expected_circuits : timeSeen[c] = row.cells[c].stamp

\* C2 as stated: fed I/O failures only, the thread is Failed after the 5th
\* and never attempts the 6th read.
C2_FailsAfterFifth ==
    runKind[SoloThread] = "io" =>
        /\ reads[SoloThread] <= IoFailLimit
        /\ reads[SoloThread] = IoFailLimit => wpc[SoloThread] = "failed"

\* C2 amended: fed I/O failures only from its start, the thread is still
\* reading after the 5th failure, is Failed after the 6th, and never attempts
\* a 7th read.
C2_FailsAfterSixth ==
    runKind[SoloThread] = "io" =>
        /\ reads[SoloThread] <= IoFailLimit + 1
        /\ reads[SoloThread] <= IoFailLimit => wpc[SoloThread] = "read"
        /\ reads[SoloThread] = IoFailLimit + 1 => wpc[SoloThread] = "failed"

C2_Witness ==
    /\ runKind[SoloThread] = "io"
    /\ reads[SoloThread] = 6
    /\ wpc[SoloThread] = "failed"
    /\ printed[SoloThread] = "fatal"

\* C3: the three tallies are independent: the thread reaches Failed only on
\* the I/O tally, after the same number of I/O failures whatever came before,
\* and each warning is raised by its own tally only
\* (this is the claim as stated; the code violates it).
C3_IndependentTallies ==
    /\ wpc[SoloThread] = "failed" => ioTally[SoloThread] = IoFailLimit + 1
    /\ printed[SoloThread] = "parse_warning" => parseTally[SoloThread] > ParseFailLimit
    /\ printed[SoloThread] = "silent_warning" => silentTally[SoloThread] > SilentLimit

\* C4: a thread reaching Failed is fatal to that thread only: the step that
\* fails it changes nothing of the other threads, of the registry or of the
\* recording loop; afterwards every other thread can still take a step, the
\* recording loop can still take a step, and one row is written per tick.
ThreadStep(w) ==
    \/ \E inp \in RecorderInputs(w) : ReadLine(w, inp, MaxErrors)
    \/ StoreTime(w)
    \/ ResetErrors(w)

RecordingStep ==
    \/ BeginRow(MaxTicks)
    \/ StaleScan(StoredCircuits)
    \/ RowScan(StoredCircuits)
    \/ WriteRow
    \/ FlushRow
    \/ CheckTotals
    \/ Sleep

FailureIsLocal ==
    \A w \in Threads :
        (wpc[w] # "failed" /\ wpc'[w] = "failed") =>
            /\ \A o \in Threads \ {w} :
                  /\ wpc'[o] = wpc[o]
                  /\ data_receive_errors'[o] = data_receive_errors[o]
                  /\ wcircuit'[o] = wcircuit[o]
            /\ UNCHANGED <<registryVars, samplerVars>>

OthersGoOn ==
    (\E w \in Threads : wpc[w] = "failed") =>
        /\ \A o \in Threads :
              (wpc[o] # "failed" /\ data_receive_errors[o] < MaxErrors) => ENABLED ThreadStep(o)
        /\ (spc # "begin" \/ data_timeout_check < MaxTicks) => ENABLED RecordingStep
        /\ csv_rows = data_timeout_check + (IF spc \in {"flush", "check"} THEN 1 ELSE 0)

C4_FailureFatalToSourceOnly == [][FailureIsLocal]_vars /\ []OthersGoOn

C4_Witness ==
    /\ wpc[2] = "failed"
    /\ wpc[1] = "store_time"
    /\ spc = "check"
    /\ csv_rows = 2
    /\ ~row.cells[1].empty

\* the cell carries the numbers written in the line with fields f
CellCarries(cell, f) ==
    /\ ~cell.empty
    /\ cell.circuit_value = DigitSum(f.c, 1)
    /\ SameDecimal(cell.voltage_value, f.v)

\* C5: in a written row a circuit is empty (never zero or another value) if no
\* parseable line naming it has been stored yet; once one has been stored the
\* row carries the numbers of the last such line, unless a store came in
\* while the row was being built; a circuit no source ever names stays empty.
C5_AbsentUntilPublished ==
    RowWritten =>
        \A c \in expected_circuits :
            /\ c \notin DOMAIN lastStored => row.cells[c] = EmptyCell
            /\ (c \in DOMAIN lastStored /\ c \notin storedInTick) =>
                   CellCarries(row.cells[c], lastStored[c])
            /\ ~row.cells[c].empty =>
                   \E f \in {LineA, LineB} : CellCarries(row.cells[c], f)

C5_Witness ==
    /\ spc = "check"
    /\ csv_rows = 2
    /\ 1 \in DOMAIN lastStored
    /\ lastStored[1] = LineA
    /\ 1 \notin storedInTick
    /\ row.cells[1].circuit_value = 348
    /\ row.cells[1].voltage_value = [m |-> 17399805, e |-> 7]
    /\ row.cells[2] = EmptyCell
    /\ wpc[2] = "read"
    /\ data_receive_errors[2] > 0

\* C7: fed 11 unparseable lines (lines parse_arduino_data returns None for)
\* from its start, the thread prints the parse-failure warning exactly once,
\* on the 11th, and is still reading.
C7_ParseWarningOnce ==
    runKind[SoloThread] = "unparsed" =>
        /\ wpc[SoloThread] = "read"
        /\ reads[SoloThread] <= ParseFailLimit => parseWarnings[SoloThread] = 0
        /\ reads[SoloThread] = ParseFailLimit + 1 => parseWarnings[SoloThread] = 1

C7_Witness ==
    /\ runKind[SoloThread] = "unparsed"
    /\ reads[SoloThread] = 11
    /\ parseWarnings[SoloThread] = 1
    /\ printed[SoloThread] = "parse_warning"
    /\ data_receive_errors[SoloThread] = 11
    /\ wpc[SoloThread] = "read"

\* the recording loop starts the row after the one it wrote
NextRowStarts == spc = "begin" /\ spc' = "stale" /\ csv_rows > 0

\* C11: rows are written in strictly increasing timestamp order: the
\* timestamp of each row is strictly greater than the timestamp of the row
\* written before it.
C11_TimestampsIncrease == [][NextRowStarts => row'.timestamp > row.timestamp]_vars

\* thread w handles the outcome of a readline: it counts an error or stores a value
ReadHandled(w) ==
    /\ wpc[w] = "read"
    /\ \/ wpc'[w] # "read"
       \/ data_receive_errors'[w] # data_receive_errors[w]

\* C12: once Ctrl+C has been signalled no thread goes through another read or
\* store, and every port that was opened has been closed when the program
\* has ended.
C12_WorkersStopAndClose ==
    /\ [](spc = "exited" => \A w \in Threads : ~is_open[w])
    /\ [][spc = "interrupted" => \A w \in Threads : ~ReadHandled(w)]_vars

\* the main thread has left the recording loop
LoopLeft == spc \in {"interrupted", "errored", "exited"}

C14_SinkFailureIsFatal ==
    /\ [](sink_failed => spc \in {"errored", "exited"})
    /\ [](spc = "errored" => sink_failed /\ ENABLED HandleException)
    /\ []((spc = "exited" /\ sink_failed) => main_printed \cap {"unexpected_error", "traceback"} # {})
    /\ [][sink_failed => csv_rows' = csv_rows]_vars
    /\ [][(~sink_failed /\ sink_failed') => UNCHANGED <<registryVars, workerVars>>]_vars

C14_Witness ==
    /\ spc = "exited"
    /\ sink_failed
    /\ main_printed = {"unexpected_error", "traceback"}
    /\ ~sink_open
    /\ csv_rows = 2
    /\ flushed = 1
    /\ 1 \in DOMAIN latest_circuit_data
    /\ data_receive_errors[2] > 0

\* a step of some thread
SomeThreadStep ==
    \E w \in Threads :
        \/ wpc'[w] # wpc[w]
        \/ data_receive_errors'[w] # data_receive_errors[w]

\* C15: the recording loop never waits for the threads.  Every pass of the
\* loop that is due is eventually written and flushed, whatever the threads
\* do meanwhile (reading, counting errors, having given up); the loop can
\* take its next statement in every state, whatever the threads' positions
\* and counters are; and a step of a thread leaves the loop's state as it is.
C15_SamplerNeverBlocks ==
    /\ \A n \in 0..(MaxTicks - 1) :
           (data_timeout_check = n) ~> (csv_rows = n + 1 /\ flushed = n + 1)
    /\ []((spc # "begin" \/ data_timeout_check < MaxTicks) => ENABLED MainThreadStep)
    /\ [][SomeThreadStep => UNCHANGED samplerVars]_vars

C15_Witness ==
    /\ spc = "check"
    /\ csv_rows = 2
    /\ flushed = 2
    /\ wpc[1] = "failed"
    /\ wpc[2] = "read"
    /\ data_receive_errors[2] = MaxErrors
    /\ row.cells[1] = EmptyCell

\* C16: the keys of the dicts the threads store to are always among the
\* circuits 1..12; a well-formed line that names another circuit stores
\* nothing (it is counted as an unparseable line instead).
C16_RegistryKeysClosed ==
    /\ DOMAIN latest_circuit_data \subseteq expected_circuits
    /\ DOMAIN last_data_time \subseteq expected_circuits

\* C17: a thread whose port has delivered only lines that do not parse
\* (lines of the wrong shape, or lines whose number field is malformed), and
\* never an I/O failure, has not given up.
C17_MalformedLinesNeverFatal ==
    runKind[SoloThread] \in {"unparsed", "bad_number"} => wpc[SoloThread] # "failed"

\* C18: the count a thread gives up on is the number of reads that raised
\* since the last read that did not (an empty read, an unparseable line and
\* a parsed line all end the run), so a thread gives up only with at least
\* five failed reads in a row behind it.
C18_IoTallyConsecutiveOnly ==
    /\ printed[SoloThread] \in {"io_error", "fatal"} =>
           data_receive_errors[SoloThread] = ioTally[SoloThread]
    /\ wpc[SoloThread] = "failed" => ioTally[SoloThread] >= IoFailLimit

\* the next readline of the thread followed on a silent port
QuietRead ==
    \E inp \in QuietInputs :
        ReadLine(SoloThread, inp, MaxErrorsQuiet) /\ Observe(SoloThread, inp, MaxReadsQuiet)

\* C19: a thread that has seen only empty reads since its start, however
\* many, has not given up and goes on to the next read; every empty read is
\* counted, and the only effect of the count passing 20 is the warning of
\* line 97, printed on the 21st empty read and on each one after it.
C19_SilenceNeverFatal ==
    runKind[SoloThread] = "silent" =>
        /\ wpc[SoloThread] = "read"
        /\ data_receive_errors[SoloThread] = reads[SoloThread]
        /\ (reads[SoloThread] < MaxReadsQuiet /\ reads[SoloThread] < MaxErrorsQuiet) =>
               ENABLED QuietRead
        /\ printed[SoloThread] =
               (IF reads[SoloThread] > SilentLimit THEN "silent_warning" ELSE "none")

C19_Witness ==
    /\ runKind[SoloThread] = "silent"
    /\ reads[SoloThread] = 21
    /\ data_receive_errors[SoloThread] = 21
    /\ printed[SoloThread] = "silent_warning"
    /\ wpc[SoloThread] = "read"

\* the staleness loop of the current pass has ended
StaleScanDone == spc \in {"row", "write", "flush", "check", "sleep"}

\* circuit c is named in the staleness warning of the current pass
Flagged(c) == \E i \in 1..Len(stale_circuits) : stale_circuits[i] = c

\* no line for c has been stored since the pass began and the entry of
\* last_data_time the staleness loop read for c is the one still there
TimeEntryRead(c) ==
    /\ c \notin storedInTick
    /\ c \in DOMAIN timeSeen
    /\ timeSeen[c] = (IF c \in DOMAIN last_data_time THEN last_data_time[c].stamp ELSE -1)

C21_FlushBeforeNextTick ==
    /\ [](spc \in {"begin", "stale", "row", "write"} => flushed = csv_rows)
    /\ [](csv_rows - flushed \in {0, 1})
    /\ [][csv_rows' # csv_rows => (flushed = csv_rows /\ csv_rows' = csv_rows + 1)]_vars

C21_Witness ==
    /\ spc = "stale"
    /\ data_timeout_check = 1
    /\ csv_rows = 1
    /\ flushed = 1
    /\ now = SleepTicks
    /\ 1 \in DOMAIN latest_circuit_data

\* the step that ends a pass of the loop by counting it
PassCounted == data_timeout_check' = data_timeout_check + 1

\* C22: the message about the total of the error counters is printed when a
\* pass is counted whose number is a multiple of 20 and the counters of all
\* threads add up to more than 100 at that moment, and at no other step;
\* whatever the test finds, the loop goes on to its sleep with the row of the
\* pass written, and it can always take its next statement.
C22_TotalsEveryTwentieth ==
    /\ [][PassCounted =>
            /\ total_warnings' =
                   (IF data_timeout_check' % CheckEvery = 0
                       /\ SumErrors(Threads) > TotalErrorLimit
                    THEN total_warnings + 1 ELSE total_warnings)
            /\ spc' = "sleep"
            /\ csv_rows' = csv_rows /\ flushed' = flushed]_vars
    /\ [][~PassCounted => total_warnings' = total_warnings]_vars
    /\ [](csv_rows = data_timeout_check + (IF spc \in {"flush", "check"} THEN 1 ELSE 0))
    /\ [](spc = "check" => ENABLED CheckTotals)
    /\ [](spc = "sleep" => ENABLED Sleep)

C22_Witness ==
    /\ spc = "sleep"
    /\ data_timeout_check = CheckEvery
    /\ total_warnings = 1
    /\ SumErrors(Threads) = TotalErrorLimit + 1
    /\ csv_rows = CheckEvery
    /\ flushed = CheckEvery

\* the entry of latest_circuit_data holds the numbers written in the line with fields f
EntryCarries(entry, f) ==
    /\ entry.circuit_value = DigitSum(f.c, 1)
    /\ SameDecimal(entry.voltage, f.v)

\* C23: whatever lines a thread has gone through, each circuit holds the
\* numbers of the last parseable line naming it that the thread read, the
\* circuits with an entry are exactly those a parseable line has named, and an
\* entry changes only in the step that stores the line just read.
C23_LastLineWins ==
    /\ [](DOMAIN latest_circuit_data = DOMAIN lastStored)
    /\ [](\A c \in DOMAIN lastStored : EntryCarries(latest_circuit_data[c], lastStored[c]))
    /\ [][\A c \in DOMAIN latest_circuit_data :
              latest_circuit_data'[c] # latest_circuit_data[c] =>
                  /\ wpc[SoloThread] = "read" /\ wpc'[SoloThread] = "store_time"
                  /\ wcircuit'[SoloThread].circuit_no = c]_vars

C23_Witness ==
    /\ reads[SoloThread] = 4
    /\ 1 \in DOMAIN latest_circuit_data
    /\ lastStored[1] = LineB
    /\ latest_circuit_data[1].circuit_value = 7
    /\ latest_circuit_data[1].voltage = [m |-> 5, e |-> 1]
    /\ latest_circuit_data[1].stamp = 1
    /\ 13 \in DOMAIN latest_circuit_data
    /\ wpc[SoloThread] = "store_time"

\* thread w stores the line it has just read, for circuit c
StoresFor(w, c) ==
    /\ wpc[w] = "read"
    /\ wpc'[w] = "store_time"
    /\ wcircuit'[w].circuit_no = c

\* C24: a thread that has given up stays so and changes nothing any more:
\* not its position, not its counter, not the dicts.  No key of the dicts
\* ever goes away, an entry changes only when a thread that has not given up
\* stores a line for that circuit, and the rows written after a thread has
\* given up still carry the numbers of the last line stored for each circuit.
C24_FailedKeepsData ==
    /\ [][\A w \in Threads :
              wpc[w] = "failed" =>
                  /\ wpc'[w] = "failed"
                  /\ data_receive_errors'[w] = data_receive_errors[w]
                  /\ wcircuit'[w] = wcircuit[w]]_vars
    /\ [][/\ DOMAIN latest_circuit_data \subseteq DOMAIN latest_circuit_data'
          /\ DOMAIN last_data_time \subseteq DOMAIN last_data_time'
          /\ \A c \in DOMAIN latest_circuit_data :
                latest_circuit_data'[c] # latest_circuit_data[c] =>
                    \E w \in Threads : StoresFor(w, c)]_vars
    /\ []((RowWritten /\ \E w \in Threads : wpc[w] = "failed") =>
             \A c \in DOMAIN lastStored :
                 c \in expected_circuits /\ c \notin storedInTick =>
                     CellCarries(row.cells[c], lastStored[c]))

C24_Witness ==
    /\ wpc[1] = "failed"
    /\ data_receive_errors[1] = IoFailLimit + 1
    /\ 1 \in DOMAIN lastStored
    /\ lastStored[1] = LineA
    /\ 1 \notin storedInTick
    /\ spc = "check"
    /\ csv_rows = 2
    /\ row.cells[1].circuit_value = 348
    /\ wpc[2] = "read"

\* a statement of the recording loop has been executed
LoopMoved == samplerVars' # samplerVars

\* thread w has executed a statement
ThreadMoved(w) ==
    \/ wpc'[w] # wpc[w]
    \/ data_receive_errors'[w] # data_receive_errors[w]
    \/ wcircuit'[w] # wcircuit[w]

\* C25: the recording loop only reads what it shares with the threads: a
\* statement of the loop leaves latest_circuit_data, last_data_time and every
\* thread's error counter as they are; and a statement of one thread leaves
\* the error counter of every other thread as it is.
C25_SamplerOnlyReads ==
    /\ [][LoopMoved => UNCHANGED <<registryVars, data_receive_errors>>]_vars
    /\ [][\A w \in Threads :
              ThreadMoved(w) =>
                  \A o \in Threads \ {w} :
                      data_receive_errors'[o] = data_receive_errors[o]]_vars

C25_Witness ==
    /\ spc = "flush"
    /\ csv_rows = 2
    /\ 1 \in DOMAIN latest_circuit_data
    /\ 1 \in DOMAIN last_data_time
    /\ data_receive_errors[1] = 2
    /\ data_receive_errors[2] = 3
    /\ wpc[1] = "read"
    /\ wpc[2] = "read"

\* the lines of the inputs that name circuit c
NamedBy(c) == {f \in {LineA, LineB, LineOut} : DigitSum(f.n, 1) = c}

\* C26: every row handed to the csv writer holds the date and time of its
\* pass and exactly 12 pairs, the pair in column c being empty or the numbers
\* of a line stored for circuit c, for c = 1..12 in this order, whatever keys
\* the dicts hold; the numbers stored under a key outside 1..12 are in no row.
C26_RowShape ==
    RowComplete =>
        /\ row.timestamp = current_time_stamp \div TicksPerSecond
        /\ Len(row.cells) = 12
        /\ \A c \in 1..12 :
               \/ row.cells[c] = EmptyCell
               \/ /\ c \in DOMAIN lastStored
                  /\ \E f \in NamedBy(c) : CellCarries(row.cells[c], f)
        /\ \A c \in 1..12 : ~(~row.cells[c].empty /\ CellCarries(row.cells[c], LineOut))

C26_Witness ==
    /\ spc = "check"
    /\ csv_rows = 2
    /\ 13 \in DOMAIN latest_circuit_data
    /\ 13 \in DOMAIN last_data_time
    /\ 1 \in DOMAIN latest_circuit_data
    /\ Len(row.cells) = 12
    /\ row.cells[1].circuit_value = 348
    /\ row.cells[12] = EmptyCell

\* the numbers of the cell are the count of one line and the voltage of another
MixedPair(cell) ==
    \E f, g \in {LineA, LineB} :
        /\ f # g
        /\ cell.circuit_value = DigitSum(f.c, 1)
        /\ SameDecimal(cell.voltage_value, g.v)

\* C28: in a row, also while it is being built, the count and the voltage of
\* a circuit are those of one and the same stored line, however the stores of
\* the threads fall between the statements of the loop: no cell holds the
\* count of one line with the voltage of another.
C28_PairFromOneFrame ==
    \A i \in 1..Len(row.cells) :
        ~row.cells[i].empty =>
            /\ \E f \in {LineA, LineB} : CellCarries(row.cells[i], f)
            /\ ~MixedPair(row.cells[i])

C28_Witness ==
    /\ spc = "check"
    /\ csv_rows = 2
    /\ 1 \in storedInTick
    /\ 1 \in DOMAIN lastStored
    /\ lastStored[1] = LineB
    /\ CellCarries(row.cells[1], LineA)
    /\ latest_circuit_data[1].circuit_value = 7

\* ---------------------------------------------------------------------
\* single_sensor_recorder.py, lines 109-170: one loop reads the port and
\* writes the row of the pass.
MaxErrorsSingle == 8   \* consecutive failures the port delivers
MaxRowsSingle == 8     \* rows the loop writes

\* one pass of the `while True` of line 111: the read of lines 112-135, then,
\* unless the break of line 135 was taken, the row of lines 137-150 and the
\* sleep of line 160.  Lines 152-158 only print.
PassSingle(inp) ==
    /\ pc_single = "loop"
    /\ LET parsed == parse_arduino_data_single(LineOf(inp))
           raised == inp.kind = "io" \/ (inp.kind = "line" /\ parsed.kind = "ValueError")
           stored == inp.kind = "line" /\ parsed.kind = "ok"
           errors == IF stored THEN 0 ELSE data_receive_errors_single + 1
           data   == IF stored
                     THEN [empty |-> FALSE, circuit_value |-> parsed.circuit_value,
                           voltage |-> parsed.voltage]
                     ELSE latest_data
       IN  /\ errors <= MaxErrorsSingle
           /\ data_receive_errors_single' = errors
           /\ latest_data' = data
           /\ IF raised /\ errors > IoFailLimitSingle
              THEN /\ pc_single' = "finally"
                   /\ stopped_single' = "break"
                   /\ UNCHANGED <<row_single, csv_rows_single>>
              ELSE /\ csv_rows_single < MaxRowsSingle
                   /\ row_single' = data
                   /\ csv_rows_single' = csv_rows_single + 1
                   /\ UNCHANGED <<pc_single, stopped_single>>
    /\ UNCHANGED ser_open_single

\* Ctrl+C while the loop runs: the handler of lines 163-165 prints
InterruptSingle ==
    /\ pc_single = "loop"
    /\ pc_single' = "finally"
    /\ stopped_single' = "ctrl_c"
    /\ UNCHANGED <<data_receive_errors_single, latest_data, row_single, csv_rows_single,
                   ser_open_single>>

\* writer.writerow or f.flush raises: the handler of lines 166-168 prints
SinkFailsSingle ==
    /\ pc_single = "loop"
    /\ pc_single' = "finally"
    /\ stopped_single' = "error"
    /\ UNCHANGED <<data_receive_errors_single, latest_data, row_single, csv_rows_single,
                   ser_open_single>>

\* finally: ser.close()
FinallySingle ==
    /\ pc_single = "finally"
    /\ pc_single' = "exited"
    /\ ser_open_single' = FALSE
    /\ UNCHANGED <<stopped_single, data_receive_errors_single, latest_data, row_single,
                   csv_rows_single>>

NextSingle ==
    \/ \E inp \in SoloInputs : PassSingle(inp) /\ UNCHANGED <<parseVars, hexVars, receiverVars, loggerVars>>
    \/ InterruptSingle /\ UNCHANGED <<parseVars, hexVars, receiverVars, loggerVars>>
    \/ SinkFailsSingle /\ UNCHANGED <<parseVars, hexVars, receiverVars, loggerVars>>
    \/ FinallySingle /\ UNCHANGED <<parseVars, hexVars, receiverVars, loggerVars>>

SpecSingle == Init /\ [][NextSingle]_vars

\* C27: in the single-sensor recorder a pass of the loop writes a row
\* whatever the port delivered, and the loop is left only by Ctrl+C or by a
\* failure of the sink: rows go on being written while the port is silent
\* and also after the consecutive I/O failures have passed the hard threshold.
PassTaken == pc_single = "loop" /\ data_receive_errors_single' # data_receive_errors_single
C27_RowsIndependentOfSource ==
    [][/\ PassTaken => csv_rows_single' = csv_rows_single + 1
       /\ stopped_single' \in {"no", "ctrl_c", "error"}]_vars

\* ---------------------------------------------------------------------
\* receiver.py: IM920sReceiver.run, start_csv_recording and cleanup
MaxPasses == 3         \* passes of the receiver's loop

FrameWrongNode == <<"0", "0", ",", "0", "0", "0", "5", ",", "0", "1", ":",
                    "0", "1", "0", "2", "0", "3">>
FrameShort == HexHeader \o <<"0", "1", ":", "0", "1", "0", "2">>
FrameOne == HexHeader \o <<"0", "1", ":", "0", "1", "0", "2", "0", "3", "0", "4">>
FrameTwo == HexHeader \o <<"0", "1", ":", "0", "a", "0", "b", "0", "c", "0", "D", "0", "E", "0", "F">>
ReceiverFrames == {FrameWrongNode, FrameShort, FrameOne, FrameTwo}

CsvHeader == <<"timestamp", "A1", "A2", "A3">>
\* [timestamp_str, a1, a2, a3]
CsvRow(time, triple) == <<time, triple[1], triple[2], triple[3]>>

\* variant of the deques without maxlen
DequeAppendUnbounded(q, x) == Append(q, x)
\* deque(maxlen=self.buffer_size).append(x)
DequeAppend(q, x) == IF Len(q) >= buffer_size THEN Append(Tail(q), x) ELSE Append(q, x)

\* the triples of a frame as the observer notes them
Decoded(line, time) ==
    LET r == parse_received_data(line)
    IN  [i \in 1..Len(r.samples) |-> [s |-> r.samples[i], t |-> time]]

\* if not self.connect(): return     if save_csv: ...
Connect(connected, save_csv) ==
    /\ rpc = "connect"
    /\ IF connected
       THEN /\ ser' = "open"
            /\ rpc' = IF save_csv THEN "start_csv" ELSE "loop"
       ELSE /\ rpc' = "returned"
            /\ UNCHANGED ser
    /\ UNCHANGED <<leaving, csv_file, csv_writer, data_buffer, csv_out, csv_flushed, samples,
                   current_time, rnow, expected>>

\* self.start_csv_recording() at line 114, before the try of line 119
StartCsv ==
    /\ rpc = "start_csv"
    /\ csv_file' = "open"
    /\ csv_writer' = TRUE
    /\ csv_out' = <<CsvHeader>>
    /\ rpc' = "loop"
    /\ UNCHANGED <<leaving, ser, data_buffer, csv_flushed, samples, current_time, rnow, expected>>

\* os.makedirs or open raises (opened = FALSE), or the write of the header
\* raises after open has succeeded: the exception leaves run() at line 114
StartCsvFails(opened) ==
    /\ rpc = "start_csv"
    /\ csv_file' = IF opened THEN "open" ELSE "none"
    /\ rpc' = "raised"
    /\ UNCHANGED <<leaving, ser, csv_writer, data_buffer, csv_out, csv_flushed, samples,
                   current_time, rnow, expected>>

\* a pass with nothing waiting, or with an empty line: only the sleep
IdlePass ==
    /\ rpc = "loop"
    /\ rnow < MaxPasses
    /\ rnow' = rnow + 1
    /\ UNCHANGED <<rpc, leaving, ser, csv_file, csv_writer, data_buffer, csv_out, csv_flushed,
                   samples, current_time, expected>>

\* lines 121-129: a line is read and parsed; `if samples:` skips None and []
Receive(line) ==
    /\ rpc = "loop"
    /\ rnow < MaxPasses
    /\ rnow' = rnow + 1
    /\ expected' = expected \o Decoded(line, rnow + 1)
    /\ LET r == parse_received_data(line)
       IN  IF r.kind = "list" /\ r.samples # <<>>
           THEN /\ samples' = r.samples
                /\ current_time' = rnow + 1
                /\ rpc' = "triple"
           ELSE UNCHANGED <<samples, current_time, rpc>>
    /\ UNCHANGED <<leaving, ser, csv_file, csv_writer, data_buffer, csv_out, csv_flushed>>

\* lines 131-143: one turn of `for a1, a2, a3 in samples`
AppendTriple ==
    /\ rpc = "triple"
    /\ LET t == Head(samples)
       IN  /\ data_buffer' = [A1 |-> DequeAppend(data_buffer.A1, t[1]),
                              A2 |-> DequeAppend(data_buffer.A2, t[2]),
                              A3 |-> DequeAppend(data_buffer.A3, t[3]),
                              timestamps |-> DequeAppend(data_buffer.timestamps, current_time)]
           /\ csv_out' = IF csv_writer THEN Append(csv_out, CsvRow(current_time, t))
                         ELSE csv_out
    /\ samples' = Tail(samples)
    /\ rpc' = IF Tail(samples) = <<>> THEN "flush" ELSE "triple"
    /\ UNCHANGED <<leaving, ser, csv_file, csv_writer, csv_flushed, current_time, rnow, expected>>

\* lines 145-148: if self.csv_file: self.csv_file.flush(); then the sleep
FlushFrame ==
    /\ rpc = "flush"
    /\ csv_flushed' = IF csv_file = "open" THEN Len(csv_out) ELSE csv_flushed
    /\ rpc' = "loop"
    /\ UNCHANGED <<leaving, ser, csv_file, csv_writer, data_buffer, csv_out, samples,
                   current_time, rnow, expected>>

InTry == rpc \in {"loop", "triple", "flush"}

\* Ctrl+C inside the try of line 119: except KeyboardInterrupt prints
InterruptRun ==
    /\ InTry
    /\ leaving' = "interrupt"
    /\ rpc' = "cleanup"
    /\ UNCHANGED <<ser, csv_file, csv_writer, data_buffer, csv_out, csv_flushed, samples,
                   current_time, rnow, expected>>

\* readline, writerow or flush raises inside the try: no handler, only finally
LoopRaises ==
    /\ InTry
    /\ leaving' = "exception"
    /\ rpc' = "cleanup"
    /\ UNCHANGED <<ser, csv_file, csv_writer, data_buffer, csv_out, csv_flushed, samples,
                   current_time, rnow, expected>>

\* finally: self.cleanup()
Cleanup ==
    /\ rpc = "cleanup"
    /\ csv_file' = IF csv_file = "open" THEN "closed" ELSE csv_file
    /\ csv_flushed' = IF csv_file = "open" THEN Len(csv_out) ELSE csv_flushed
    /\ ser' = IF ser = "open" THEN "closed" ELSE ser
    /\ rpc' = IF leaving = "exception" THEN "raised" ELSE "returned"
    /\ UNCHANGED <<leaving, csv_writer, data_buffer, csv_out, samples, current_time, rnow,
                   expected>>

\* self.csv_file.close() raises at line 158 (its flush fails): the file is
\* closed all the same, and cleanup is left before line 161
CleanupCloseFails ==
    /\ rpc = "cleanup"
    /\ csv_file = "open"
    /\ csv_file' = "closed"
    /\ rpc' = "raised"
    /\ UNCHANGED <<leaving, ser, csv_writer, data_buffer, csv_out, csv_flushed, samples,
                   current_time, rnow, expected>>

NextReceiver ==
    \/ \E connected \in BOOLEAN, save_csv \in BOOLEAN :
           Connect(connected, save_csv) /\ UNCHANGED <<parseVars, hexVars, singleVars, loggerVars>>
    \/ StartCsv /\ UNCHANGED <<parseVars, hexVars, singleVars, loggerVars>>
    \/ \E opened \in BOOLEAN : StartCsvFails(opened) /\ UNCHANGED <<parseVars, hexVars, singleVars, loggerVars>>
    \/ IdlePass /\ UNCHANGED <<parseVars, hexVars, singleVars, loggerVars>>
    \/ \E line \in ReceiverFrames : Receive(line) /\ UNCHANGED <<parseVars, hexVars, singleVars, loggerVars>>
    \/ AppendTriple /\ UNCHANGED <<parseVars, hexVars, singleVars, loggerVars>>
    \/ FlushFrame /\ UNCHANGED <<parseVars, hexVars, singleVars, loggerVars>>
    \/ InterruptRun /\ UNCHANGED <<parseVars, hexVars, singleVars, loggerVars>>
    \/ LoopRaises /\ UNCHANGED <<parseVars, hexVars, singleVars, loggerVars>>
    \/ Cleanup /\ UNCHANGED <<parseVars, hexVars, singleVars, loggerVars>>
    \/ CleanupCloseFails /\ UNCHANGED <<parseVars, hexVars, singleVars, loggerVars>>

SpecReceiver == Init /\ [][NextReceiver]_vars

\* C29: whenever run() has ended after a successful connect -- by Ctrl+C,
\* by an exception while reading or writing, or by a failure to open the csv
\* file in start_csv_recording -- the serial port is closed, and the csv
\* file is closed if it was opened.
RunEnded == rpc \in {"returned", "raised"}
C29_PortAndFileClosedOnExit ==
    (RunEnded /\ ser # "none") => (ser = "closed" /\ csv_file # "open")

\* ---------------------------------------------------------------------
\* the receiver in the middle of run(), after it has been sent FrameOne
\* `fill` times (at the clock values 1 - fill .. 0) and nothing else
StartFills == {0, buffer_size - 1}
FillTriple == <<1, 2, 3>>

InitRing ==
    /\ psLine = <<>>
    /\ psFields = NoFields
    /\ psResult = Pending
    /\ psResultSingle = Pending
    /\ hxLine = <<>>
    /\ hxFields = NoFrame
    /\ hxResult = HexPending
    /\ hxResultVis = HexPending
    /\ InitRecorder
    /\ \E fill \in StartFills, save_csv \in BOOLEAN :
        /\ rpc = "loop"
        /\ leaving = "no"
        /\ ser = "open"
        /\ csv_file = IF save_csv THEN "open" ELSE "none"
        /\ csv_writer = save_csv
        /\ data_buffer = [A1 |-> [i \in 1..fill |-> FillTriple[1]],
                          A2 |-> [i \in 1..fill |-> FillTriple[2]],
                          A3 |-> [i \in 1..fill |-> FillTriple[3]],
                          timestamps |-> [i \in 1..fill |-> i - fill]]
        /\ csv_out = IF save_csv
                     THEN <<CsvHeader>> \o [i \in 1..fill |-> CsvRow(i - fill, FillTriple)]
                     ELSE <<>>
        /\ csv_flushed = IF save_csv THEN fill + 1 ELSE 0
        /\ samples = <<>>
        /\ current_time = 0
        /\ rnow = 0
        /\ expected = [i \in 1..fill |-> [s |-> FillTriple, t |-> i - fill]]

NextRing ==
    \/ IdlePass /\ UNCHANGED <<parseVars, hexVars, singleVars, loggerVars>>
    \/ \E line \in ReceiverFrames : Receive(line) /\ UNCHANGED <<parseVars, hexVars, singleVars, loggerVars>>
    \/ AppendTriple /\ UNCHANGED <<parseVars, hexVars, singleVars, loggerVars>>
    \/ FlushFrame /\ UNCHANGED <<parseVars, hexVars, singleVars, loggerVars>>
    \/ InterruptRun /\ UNCHANGED <<parseVars, hexVars, singleVars, loggerVars>>
    \/ LoopRaises /\ UNCHANGED <<parseVars, hexVars, singleVars, loggerVars>>
    \/ Cleanup /\ UNCHANGED <<parseVars, hexVars, singleVars, loggerVars>>
    \/ CleanupCloseFails /\ UNCHANGED <<parseVars, hexVars, singleVars, loggerVars>>

SpecRing == InitRing /\ [][NextRing]_vars

\* C30: whenever the receiver has fully processed a frame, its four ring
\* buffers have one length, at most 1000, and entry i of each comes from the
\* same decoded triple (they are the latest triples decoded, in order, each
\* with the time of its frame); and the csv file holds, after its header,
\* one row per decoded triple in frame order, so a frame of k triples has
\* added exactly k rows and a frame with no match or no triple none.
Kept == IF Len(expected) > buffer_size THEN buffer_size ELSE Len(expected)
C30_BuffersAlignedRowsPerTriple ==
    rpc = "loop" =>
        /\ Len(data_buffer.A1) = Kept
        /\ Len(data_buffer.A2) = Kept
        /\ Len(data_buffer.A3) = Kept
        /\ Len(data_buffer.timestamps) = Kept
        /\ Kept <= 1000
        /\ \A i \in 1..Kept :
              LET e == expected[Len(expected) - Kept + i]
              IN  /\ data_buffer.A1[i] = e.s[1]
                  /\ data_buffer.A2[i] = e.s[2]
                  /\ data_buffer.A3[i] = e.s[3]
                  /\ data_buffer.timestamps[i] = e.t
        /\ csv_writer =>
              csv_out = <<CsvHeader>> \o [i \in 1..Len(expected) |->
                                             CsvRow(expected[i].t, expected[i].s)]
        /\ ~csv_writer => csv_out = <<>>
\* a full ring that has dropped its oldest entries, after a frame of two triples
C30_Witness ==
    /\ rpc = "loop"
    /\ csv_writer
    /\ Len(expected) > buffer_size
    /\ Len(data_buffer.A1) = buffer_size
    /\ data_buffer.A1[buffer_size - 1] = 10
    /\ data_buffer.A3[buffer_size] = 15
    /\ Len(csv_out) = Len(expected) + 1
    /\ rnow = MaxPasses

====
